---- MODULE Spec2Model ----
(***************************************************************************)
(* Model of danp/snowhfx, cmd/features: the grid spatial index, the        *)
(* direction-aware nearest-line matcher, the per-feature matching policy   *)
(* of bikeLines and the binary feature encoder.                            *)
(*                                                                         *)
(* Number representation.  The program computes on float64.  The model     *)
(* uses exact integer and rational arithmetic:                             *)
(*   - a coordinate (longitude or latitude, degrees) is an integer count   *)
(*     of half a microdegree (5e-7 degree);                                *)
(*   - a planar coordinate (projector.toXY) is an integer count of the arc *)
(*     length of 1e-4 degree (about 11.1 m); all lengths that the program  *)
(*     calls "meters" are counted in this unit;                            *)
(*   - a distance is carried as its SQUARE, a rational <<num, den>> in     *)
(*     lowest terms, <<1, 0>> standing for +Inf; every comparison of the   *)
(*     program between distances is decided exactly on the squares;        *)
(*   - a bearing is carried as the direction vector <<dx, dy>> whose atan2 *)
(*     the program takes; comparing an angleDelta with a threshold is      *)
(*     decided exactly from the dot product.                               *)
(***************************************************************************)
EXTENDS Integers, Sequences, FiniteSets, TLC

\* ------------------------------------------------------------------------
\* Arithmetic helpers
\* ------------------------------------------------------------------------

Abs(n) == IF n < 0 THEN -n ELSE n

RECURSIVE GCD(_, _)
GCD(a, b) == IF b = 0 THEN a ELSE GCD(b, a % b)

\* A rational in lowest terms with a positive denominator (d > 0).
Rat(n, d) == LET g == GCD(Abs(n), d) IN IF g = 0 THEN <<0, 1>> ELSE <<n \div g, d \div g>>

\* math.Inf(1) as a squared distance.
Inf == <<1, 0>>

IsInf(a) == a[2] = 0

\* a < b and a <= b on rationals (or +Inf).
RatLT(a, b) == a[1] * b[2] < b[1] * a[2]

RatLE(a, b) == IF IsInf(a) THEN IsInf(b) ELSE a[1] * b[2] <= b[1] * a[2]

RatMin(a, b) == IF RatLT(b, a) THEN b ELSE a

\* Stand-ins for math.MinInt64 and math.MaxInt64: the model's integers are
\* narrower than int64; all that matters is that they lie below and above
\* every grid index.
MinInt == -(2 ^ 30)

MaxInt == 2 ^ 30

\* Go's int(f) for the float f = n / d with d >= 0.  For d > 0 the value is
\* truncated toward zero.  For d = 0 the float is NaN (n = 0), +Inf (n > 0)
\* or -Inf (n < 0): the result of converting it is implementation-dependent
\* (Go spec, Conversions); amd64 yields the "integer indefinite" value
\* math.MinInt64 in all three cases, arm64 yields 0, MaxInt64 and MinInt64.
FloatToInt(n, d, arch) ==
    IF d > 0
    THEN IF n >= 0 THEN n \div d ELSE -((-n) \div d)
    ELSE IF arch = "amd64" THEN MinInt
         ELSE IF n = 0 THEN 0 ELSE IF n > 0 THEN MaxInt ELSE MinInt

\* ------------------------------------------------------------------------
\* Geometry primitives (planar points are <<x, y>>)
\* ------------------------------------------------------------------------

\* Square of the Euclidean distance.
distancePoint(a, b) == <<(a[1] - b[1]) * (a[1] - b[1]) + (a[2] - b[2]) * (a[2] - b[2]), 1>>

pointSegmentDistance(p, a, b) ==
    LET vx == b[1] - a[1]
        vy == b[2] - a[2]
        wx == p[1] - a[1]
        wy == p[2] - a[2]
        c1 == vx * wx + vy * wy
        c2 == vx * vx + vy * vy
    IN  IF c1 <= 0 THEN distancePoint(p, a)
        ELSE IF c2 <= c1 THEN distancePoint(p, b)
        ELSE \* |w|^2 - c1^2 / c2: the squared distance to the projection
             Rat((wx * wx + wy * wy) * c2 - c1 * c1, c2)

orientation(a, b, c) == (b[2] - a[2]) * (c[1] - b[1]) - (b[1] - a[1]) * (c[2] - b[2])

Min2(x, y) == IF x < y THEN x ELSE y

Max2(x, y) == IF x > y THEN x ELSE y

onSegment(a, b, c) ==
    /\ b[1] >= Min2(a[1], c[1]) /\ b[1] <= Max2(a[1], c[1])
    /\ b[2] >= Min2(a[2], c[2]) /\ b[2] <= Max2(a[2], c[2])

segmentsIntersect(a1, a2, b1, b2) ==
    LET o1 == orientation(a1, a2, b1)
        o2 == orientation(a1, a2, b2)
        o3 == orientation(b1, b2, a1)
        o4 == orientation(b1, b2, a2)
    IN  \/ (o1 * o2 < 0 /\ o3 * o4 < 0)
        \/ (o1 = 0 /\ onSegment(a1, b1, a2))
        \/ (o2 = 0 /\ onSegment(a1, b2, a2))
        \/ (o3 = 0 /\ onSegment(b1, a1, b2))
        \/ (o4 = 0 /\ onSegment(b1, a2, b2))

segmentDistance(a1, a2, b1, b2) ==
    IF segmentsIntersect(a1, a2, b1, b2) THEN <<0, 1>>
    ELSE RatMin(RatMin(pointSegmentDistance(a1, b1, b2), pointSegmentDistance(a2, b1, b2)),
                RatMin(pointSegmentDistance(b1, a1, a2), pointSegmentDistance(b2, a1, a2)))

\* The bearing of a -> b: ok is false for a zero-length segment.
segmentAngle(a, b) ==
    LET dx == b[1] - a[1]
        dy == b[2] - a[2]
    IN  IF dx = 0 /\ dy = 0 THEN [ok |-> FALSE, dx |-> 0, dy |-> 0]
        ELSE [ok |-> TRUE, dx |-> dx, dy |-> dy]

\* cos^2 of a threshold angle given in degrees, as <<num, den>>.
CosSq(deg) ==
    CASE deg = 30 -> <<3, 4>>
      [] deg = 45 -> <<1, 2>>
      [] deg = 60 -> <<1, 4>>
      [] OTHER -> <<0, 1>>

\* angleDelta(a, b) > maxAngle.  angleDelta is the direction-agnostic angle
\* t in [0, 90 degrees] between the two bearings, cos^2 t = (u.v)^2 / (|u|^2 |v|^2);
\* for a threshold in (0, 90) degrees, t > maxAngle iff cos^2 t < cos^2 maxAngle,
\* and no angleDelta exceeds a threshold of 90 degrees or more.
angleDelta(a, b, maxAngleDeg) ==
    LET dot == a.dx * b.dx + a.dy * b.dy
        na == a.dx * a.dx + a.dy * a.dy
        nb == b.dx * b.dx + b.dy * b.dy
        c == CosSq(maxAngleDeg)
    IN  IF maxAngleDeg >= 90 THEN FALSE
        ELSE dot * dot * c[2] < c[1] * na * nb

overallLineAngle(points) ==
    IF Len(points) < 2 THEN [ok |-> FALSE, dx |-> 0, dy |-> 0]
    ELSE LET start == points[1]
             last == points[Len(points)]
             \* indices (below the last) of points distinct from start
             distinct == {i \in 1..(Len(points) - 1) : points[i] # start}
             end == IF last = start /\ distinct # {}
                    THEN points[CHOOSE i \in distinct : \A j \in distinct : j <= i]
                    ELSE last
         IN  segmentAngle(start, end)

RECURSIVE SeqMin(_, _)
SeqMin(f, n) == IF n = 1 THEN f[1] ELSE Min2(f[n], SeqMin(f, n - 1))

RECURSIVE SeqMax(_, _)
SeqMax(f, n) == IF n = 1 THEN f[1] ELSE Max2(f[n], SeqMax(f, n - 1))

\* lineBounds of a non-empty line: [minLon, minLat, maxLon, maxLat].
lineBounds(line) ==
    LET lons == [i \in 1..Len(line) |-> line[i][1]]
        lats == [i \in 1..Len(line) |-> line[i][2]]
    IN  [minLon |-> SeqMin(lons, Len(line)), minLat |-> SeqMin(lats, Len(line)),
         maxLon |-> SeqMax(lons, Len(line)), maxLat |-> SeqMax(lats, Len(line))]

\* ------------------------------------------------------------------------
\* Projector
\* ------------------------------------------------------------------------

\* math.Cos(p.lat0Rad).  The modelled extents lie within a few thousandths
\* of a degree of the equator, where the cosine differs from 1 by less than
\* 1e-9, far below the resolution of any comparison made here.
cosLat0(p) == 1

\* projector.toXY: degrees -> planar units (the arc of 1e-4 degree).
toXY(p, point) == <<(point[1] * cosLat0(p)) \div 200, point[2] \div 200>>

lineToXY(p, line) == [i \in 1..Len(line) |-> toXY(p, line[i])]

\* metersToDegreesLat / metersToDegreesLon: planar units -> coordinate units.
metersToDegreesLat(meters) == meters * 200

metersToDegreesLon(meters, p) == (meters * 200) \div cosLat0(p)

\* ------------------------------------------------------------------------
\* Line-to-line distance
\* ------------------------------------------------------------------------

\* The least element of a set of squared distances, +Inf for the empty set.
RatSetMin(S) == IF S = {} THEN Inf ELSE CHOOSE m \in S : \A x \in S : RatLE(m, x)

minPointLineDistance(point, line) ==
    RatSetMin({pointSegmentDistance(point, line[i], line[i + 1]) : i \in 1..(Len(line) - 1)})

minLineDistance(a, b) ==
    IF Len(a) = 0 \/ Len(b) = 0 THEN Inf
    ELSE IF Len(a) = 1 /\ Len(b) = 1 THEN distancePoint(a[1], b[1])
    ELSE IF Len(a) = 1 THEN minPointLineDistance(a[1], b)
    ELSE IF Len(b) = 1 THEN minPointLineDistance(b[1], a)
    ELSE RatSetMin({segmentDistance(a[i], a[i + 1], b[j], b[j + 1]) :
                       i \in 1..(Len(a) - 1), j \in 1..(Len(b) - 1)})

minLineDistanceWithAngle(a, b, maxAngleRad) ==
    IF maxAngleRad <= 0 THEN minLineDistance(a, b)
    ELSE IF Len(a) < 2 \/ Len(b) < 2 THEN minLineDistance(a, b)
    ELSE LET pairs == {ij \in (1..(Len(a) - 1)) \X (1..(Len(b) - 1)) :
                          LET angleA == segmentAngle(a[ij[1]], a[ij[1] + 1])
                              angleB == segmentAngle(b[ij[2]], b[ij[2] + 1])
                          IN  /\ angleA.ok
                              /\ angleB.ok
                              /\ ~angleDelta(angleA, angleB, maxAngleRad)}
         IN  RatSetMin({segmentDistance(a[ij[1]], a[ij[1] + 1], b[ij[2]], b[ij[2] + 1]) :
                           ij \in pairs})

\* ------------------------------------------------------------------------
\* Spatial index
\* ------------------------------------------------------------------------

\* The clamping of a cell range shared by newSpatialIndex and candidates:
\* the lower end is raised to 0, the upper end lowered to n - 1.
ClampLo(v) == IF v < 0 THEN 0 ELSE v

ClampHi(v, n) == IF v >= n THEN n - 1 ELSE v

\* newSpatialIndex over a sequence of [coords, priority, objectID]; "nil"
\* with an error for an empty sequence.  The map cells is represented by the
\* cell range each line was appended to: cells[key] of the program is the
\* ascending list of the lines i whose range cellRange[i] contains key (see
\* CellList).
newSpatialIndex(lines, cols, rows, arch) ==
    IF Len(lines) = 0 THEN [err |-> "no lines to index"]
    ELSE
    LET n == Len(lines)
        bounds == [i \in 1..n |-> lineBounds(lines[i].coords)]
        globalMinLon == SeqMin([i \in 1..n |-> bounds[i].minLon], n)
        globalMinLat == SeqMin([i \in 1..n |-> bounds[i].minLat], n)
        globalMaxLon == SeqMax([i \in 1..n |-> bounds[i].maxLon], n)
        globalMaxLat == SeqMax([i \in 1..n |-> bounds[i].maxLat], n)
        proj == [lat0 |-> (globalMinLat + globalMaxLat) \div 2]
        \* cellWidth = w / cols, so v / cellWidth = (v * cols) / w
        w == globalMaxLon - globalMinLon
        h == globalMaxLat - globalMinLat
        full == [i \in 1..n |->
                   LET xy == lineToXY(proj, lines[i].coords)
                       angle == overallLineAngle(xy)
                   IN  [coords |-> lines[i].coords,
                        priority |-> lines[i].priority,
                        objectID |-> lines[i].objectID,
                        xy |-> xy,
                        minLon |-> bounds[i].minLon, minLat |-> bounds[i].minLat,
                        maxLon |-> bounds[i].maxLon, maxLat |-> bounds[i].maxLat,
                        overallAngleRad |-> angle,
                        hasOverallAngle |-> angle.ok]]
        range == [i \in 1..n |->
                   [colMin |-> ClampLo(FloatToInt((bounds[i].minLon - globalMinLon) * cols, w, arch)),
                    colMax |-> ClampHi(FloatToInt((bounds[i].maxLon - globalMinLon) * cols, w, arch), cols),
                    rowMin |-> ClampLo(FloatToInt((bounds[i].minLat - globalMinLat) * rows, h, arch)),
                    rowMax |-> ClampHi(FloatToInt((bounds[i].maxLat - globalMinLat) * rows, h, arch), rows)]]
    IN  [err |-> "",
         lines |-> full,
         minLon |-> globalMinLon, minLat |-> globalMinLat,
         maxLon |-> globalMaxLon, maxLat |-> globalMaxLat,
         cols |-> cols, rows |-> rows,
         cellRange |-> range,
         projector |-> proj]

\* idx.cells[cellKey{row, col}]: the lines appended to that cell, ascending.
CellList(idx, row, col) ==
    SelectSeq([i \in 1..Len(idx.lines) |-> i],
              LAMBDA i : /\ idx.cellRange[i].rowMin <= row /\ row <= idx.cellRange[i].rowMax
                         /\ idx.cellRange[i].colMin <= col /\ col <= idx.cellRange[i].colMax)

\* candidates: the row-major scan of the cells rowMin..rowMax x colMin..colMax
\* appends each line index the first time it is seen.  A line is first seen
\* in the cell (least row, least column) its range shares with the scanned
\* range, so the result lists the lines with a shared cell, ordered by that
\* first cell and, within one cell, by index.
candidates(idx, minLon, minLat, maxLon, maxLat, arch) ==
    LET w == idx.maxLon - idx.minLon
        h == idx.maxLat - idx.minLat
        colMin == ClampLo(FloatToInt((minLon - idx.minLon) * idx.cols, w, arch))
        colMax == ClampHi(FloatToInt((maxLon - idx.minLon) * idx.cols, w, arch), idx.cols)
        rowMin == ClampLo(FloatToInt((minLat - idx.minLat) * idx.rows, h, arch))
        rowMax == ClampHi(FloatToInt((maxLat - idx.minLat) * idx.rows, h, arch), idx.rows)
        firstRow(i) == Max2(rowMin, idx.cellRange[i].rowMin)
        firstCol(i) == Max2(colMin, idx.cellRange[i].colMin)
        seen(i) == /\ firstRow(i) <= Min2(rowMax, idx.cellRange[i].rowMax)
                   /\ firstCol(i) <= Min2(colMax, idx.cellRange[i].colMax)
        hit == SelectSeq([i \in 1..Len(idx.lines) |-> i], LAMBDA i : seen(i))
    IN  SortSeq(hit, LAMBDA i, j :
                   \/ firstRow(i) < firstRow(j)
                   \/ (firstRow(i) = firstRow(j) /\ firstCol(i) < firstCol(j))
                   \/ (firstRow(i) = firstRow(j) /\ firstCol(i) = firstCol(j) /\ i < j))

\* ------------------------------------------------------------------------
\* Matcher
\* ------------------------------------------------------------------------

\* The zero nearestMatchResult.
NoMatch == [priority |-> 0, objectID |-> 0, distance |-> <<0, 1>>, hasMatch |-> FALSE]

\* distance > maxDistanceMeters, for a squared distance and a length.
ExceedsMeters(distance, meters) ==
    \/ IsInf(distance)
    \/ meters < 0
    \/ distance[1] > meters * meters * distance[2]

\* distance > minDistance + bias for squared distances D and M (M finite) and
\* a length bias >= 0:  sqrt D > sqrt M + b  iff  L > 0 and L^2 > 4 b^2 M,
\* where L = D - M - b^2.
ExceedsCutoff(distance, minDistance, bias) ==
    IF IsInf(distance) THEN TRUE
    ELSE LET dd == distance[2]
             md == minDistance[2]
             ln == distance[1] * md - minDistance[1] * dd - bias * bias * dd * md
         IN  /\ ln > 0
             /\ ln * ln > 4 * bias * bias * minDistance[1] * dd * dd * md

\* The overall-angle filter shared by both passes: TRUE when the candidate
\* is skipped.
SkipOverall(candidate, lineOverallAngle, maxOverallAngleRad) ==
    /\ maxOverallAngleRad > 0
    /\ lineOverallAngle.ok
    /\ candidate.hasOverallAngle
    /\ angleDelta(lineOverallAngle, candidate.overallAngleRad, maxOverallAngleRad)

\* The update test of pass 2: the candidate replaces the running best when
\* its priority value is lower, or equal with a smaller distance.
betterCandidateFarthest(priority, distance, best) ==
    \/ priority < best.priority
    \/ (priority = best.priority /\ RatLT(best.distance, distance))

betterCandidateNearest(priority, distance, best) == RatLT(distance, best.distance)

betterCandidate(priority, distance, best) ==
    \/ priority < best.priority
    \/ (priority = best.priority /\ RatLT(distance, best.distance))

\* The end of nearestMatch: the pass-2 winner is returned only if it lies
\* within maxDistanceMeters.
matchResultUnbounded(best, maxDistanceMeters) ==
    [priority |-> best.priority, objectID |-> best.objectID,
     distance |-> best.distance, hasMatch |-> TRUE]

matchResultStrict(best, maxDistanceMeters) ==
    IF ~ExceedsMeters(best.distance, maxDistanceMeters)
         /\ best.distance[1] # maxDistanceMeters * maxDistanceMeters * best.distance[2]
    THEN [priority |-> best.priority, objectID |-> best.objectID,
          distance |-> best.distance, hasMatch |-> TRUE]
    ELSE NoMatch

matchResult(best, maxDistanceMeters) ==
    IF ~ExceedsMeters(best.distance, maxDistanceMeters)
    THEN [priority |-> best.priority, objectID |-> best.objectID,
          distance |-> best.distance, hasMatch |-> TRUE]
    ELSE NoMatch

\* Pass 2 of nearestMatch over the candidates k..Len(candidateIdxs), from the
\* running best [priority, distance, objectID].
RECURSIVE Pass2(_, _, _, _, _, _, _, _, _)
Pass2(idx, candidateIdxs, k, lineXY, lineOverallAngle, maxAngleRad, maxOverallAngleRad, cutoff, best) ==
    IF k > Len(candidateIdxs) THEN best
    ELSE LET candidate == idx.lines[candidateIdxs[k]]
             distance == minLineDistanceWithAngle(lineXY, candidate.xy, maxAngleRad)
             next ==
                 IF SkipOverall(candidate, lineOverallAngle, maxOverallAngleRad) THEN best
                 ELSE IF ExceedsCutoff(distance, cutoff.minDistance, cutoff.bias) THEN best
                 ELSE IF betterCandidate(candidate.priority, distance, best)
                      THEN [priority |-> candidate.priority, distance |-> distance,
                            objectID |-> candidate.objectID]
                      ELSE best
         IN  Pass2(idx, candidateIdxs, k + 1, lineXY, lineOverallAngle, maxAngleRad,
                   maxOverallAngleRad, cutoff, next)

nearestMatch(idx, line, maxDistanceMeters, maxAngleRad, maxOverallAngleRad, priorityBiasMeters, arch) ==
    IF Len(line) = 0 THEN NoMatch
    ELSE
    LET b == lineBounds(line)
        minLon == b.minLon - metersToDegreesLon(maxDistanceMeters, idx.projector)
        maxLon == b.maxLon + metersToDegreesLon(maxDistanceMeters, idx.projector)
        minLat == b.minLat - metersToDegreesLat(maxDistanceMeters)
        maxLat == b.maxLat + metersToDegreesLat(maxDistanceMeters)
        candidateIdxs == candidates(idx, minLon, minLat, maxLon, maxLat, arch)
        lineXY == lineToXY(idx.projector, line)
        lineOverallAngle == overallLineAngle(lineXY)
        \* pass 1
        eligible == {i \in 1..Len(candidateIdxs) :
                        ~SkipOverall(idx.lines[candidateIdxs[i]], lineOverallAngle, maxOverallAngleRad)}
        minDistance == RatSetMin({minLineDistanceWithAngle(lineXY, idx.lines[candidateIdxs[i]].xy, maxAngleRad) :
                                     i \in eligible})
        bias == IF priorityBiasMeters < 0 THEN 0 ELSE priorityBiasMeters
        \* pass 2
        best == Pass2(idx, candidateIdxs, 1, lineXY, lineOverallAngle, maxAngleRad, maxOverallAngleRad,
                      [minDistance |-> minDistance, bias |-> bias],
                      [priority |-> 255, distance |-> Inf, objectID |-> 0])
    IN  IF Len(candidateIdxs) = 0 THEN NoMatch
        ELSE IF ExceedsMeters(minDistance, maxDistanceMeters) THEN NoMatch
        ELSE matchResult(best, maxDistanceMeters)

\* ------------------------------------------------------------------------
\* Strings and feature properties.  An attribute string is a sequence of
\* one-character strings; a property value is [s |-> string], [n |-> number]
\* or Null (the key is absent or holds another JSON type).
\* ------------------------------------------------------------------------

Null == [null |-> TRUE]

\* props.MustString(key, def)
MustString(props, key, def) ==
    IF key \in DOMAIN props /\ "s" \in DOMAIN props[key] THEN props[key].s ELSE def

\* props.MustInt(key, def)
MustInt(props, key, def) ==
    IF key \in DOMAIN props /\ "n" \in DOMAIN props[key] THEN props[key].n ELSE def

IsSpace(c) == c \in {" ", "\t"}

LowerLetters == <<"a", "b", "c", "d", "e", "f", "g", "h", "i", "j", "k", "l", "m",
                  "n", "o", "p", "q", "r", "s", "t", "u", "v", "w", "x", "y", "z">>

UpperLetters == <<"A", "B", "C", "D", "E", "F", "G", "H", "I", "J", "K", "L", "M",
                  "N", "O", "P", "Q", "R", "S", "T", "U", "V", "W", "X", "Y", "Z">>

ToLowerChar(c) ==
    IF \E i \in 1..26 : UpperLetters[i] = c
    THEN LowerLetters[CHOOSE i \in 1..26 : UpperLetters[i] = c]
    ELSE c

\* strings.ToLower
ToLower(s) == [i \in 1..Len(s) |-> ToLowerChar(s[i])]

\* strings.EqualFold
EqualFold(s, t) == Len(s) = Len(t) /\ \A i \in 1..Len(s) : ToLowerChar(s[i]) = ToLowerChar(t[i])

\* strings.TrimSpace
RECURSIVE TrimSpace(_)
TrimSpace(s) ==
    IF Len(s) = 0 THEN s
    ELSE IF IsSpace(s[1]) THEN TrimSpace(Tail(s))
    ELSE IF IsSpace(s[Len(s)]) THEN TrimSpace(SubSeq(s, 1, Len(s) - 1))
    ELSE s

\* strings.TrimPrefix
TrimPrefix(s, prefix) ==
    IF Len(s) >= Len(prefix) /\ SubSeq(s, 1, Len(prefix)) = prefix
    THEN SubSeq(s, Len(prefix) + 1, Len(s))
    ELSE s

Digits == <<"0", "1", "2", "3", "4", "5", "6", "7", "8", "9">>

IsDigit(c) == \E i \in 1..10 : Digits[i] = c

DigitValue(c) == (CHOOSE i \in 1..10 : Digits[i] = c) - 1

RECURSIVE DecimalValue(_, _)
DecimalValue(s, n) == IF n = 0 THEN 0 ELSE DecimalValue(s, n - 1) * 10 + DigitValue(s[n])

\* strconv.Atoi for strings of fewer than 10 characters: an optional sign
\* followed by one or more decimal digits.
Atoi(s) ==
    LET signed == Len(s) > 0 /\ s[1] \in {"+", "-"}
        body == IF signed THEN Tail(s) ELSE s
    IN  IF Len(body) = 0 \/ \E i \in 1..Len(body) : ~IsDigit(body[i])
        THEN [err |-> TRUE, value |-> 0]
        ELSE [err |-> FALSE,
              value |-> IF signed /\ s[1] = "-" THEN -DecimalValue(body, Len(body))
                        ELSE DecimalValue(body, Len(body))]

\* unicode.IsLetter / unicode.IsLower on the letters a-z, A-Z.
isAllUpper(value) ==
    /\ \E i \in 1..Len(value) : \E k \in 1..26 : value[i] \in {LowerLetters[k], UpperLetters[k]}
    /\ ~\E i \in 1..Len(value) : \E k \in 1..26 : value[i] = LowerLetters[k]

\* Dataset codes.
datasetTravelways == 0

datasetBike == 1

datasetIce == 2

datasetName(code) ==
    CASE code = datasetTravelways -> "travelways"
      [] code = datasetBike -> "bike"
      [] code = datasetIce -> "ice"
      [] OTHER -> "unknown"

isNotPlowedExact(props) == MustString(props, "WINT_PLOW", <<>>) = <<"N">>

isNotPlowed(props) == EqualFold(TrimSpace(MustString(props, "WINT_PLOW", <<>>)), <<"N">>)

isPrivateOwnerExact(owner) == owner = <<"P", "R", "I", "V">>

isPrivateOwner(owner) == EqualFold(TrimSpace(owner), <<"P", "R", "I", "V">>)

isProtectedBike(props) ==
    LET protType == TrimSpace(MustString(props, "PROT_TYPE", <<>>))
    IN  \/ protType # <<>> /\ ~EqualFold(protType, <<"N", "O", "N", "E">>)
        \/ TrimSpace(MustString(props, "BIKETYPE", <<>>)) \in
               {<<"P", "R", "O", "T", "B", "L">>,
                <<"I", "N", "T", "_", "P", "R", "O", "T", "B", "L">>,
                <<"M", "U", "P", "A", "T", "H">>}

\* priorityFromWintLOS: [priority, ok].
priorityFromWintLOS(value) ==
    LET v == TrimSpace(value)
        parsed == Atoi(TrimPrefix(v, <<"P", "R", "I">>))
    IN  IF v = <<>> THEN [priority |-> 0, ok |-> FALSE]
        ELSE IF parsed.err \/ parsed.value < 1 \/ parsed.value > 3
             THEN [priority |-> 0, ok |-> FALSE]
             ELSE [priority |-> parsed.value, ok |-> TRUE]

\* flattenLineString: [ls, ok, err].  A geometry is [type |-> "LineString",
\* coords |-> points], [type |-> "MultiLineString", coords |-> lines] or a
\* geometry of another type.
RECURSIVE Concat(_, _)
Concat(parts, n) == IF n = 0 THEN <<>> ELSE Concat(parts, n - 1) \o parts[n]

flattenLineString(geom) ==
    LET ls == IF geom.type = "LineString" THEN geom.coords
              ELSE Concat(geom.coords, Len(geom.coords))
    IN  IF geom.type \notin {"LineString", "MultiLineString"}
        THEN [ls |-> <<>>, ok |-> FALSE, err |-> TRUE]
        ELSE IF Len(ls) = 0 THEN [ls |-> <<>>, ok |-> FALSE, err |-> FALSE]
        ELSE [ls |-> ls, ok |-> TRUE, err |-> FALSE]

\* ------------------------------------------------------------------------
\* Reference data: travelways, title normalizer, ice routes
\* ------------------------------------------------------------------------

\* The zero debugEntry.  Distances are squared rationals.
debugEntry ==
    [Dataset |-> "", ObjectID |-> 0, Title |-> <<>>, Included |-> FALSE, Reason |-> "",
     Priority |-> 0, SourceDataset |-> "", MatchDistance |-> <<0, 1>>,
     WintPlow |-> <<>>, WintLOS |-> <<>>, BikeType |-> <<>>, ProtType |-> <<>>,
     BikeName |-> <<>>, StreetName |-> <<>>, ProtectedBike |-> FALSE, Coords |-> <<>>,
     NoPlowObjectID |-> 0, NoPlowDistance |-> <<0, 1>>]

\* newTitleNormalizer: the empty bestByLower map.
newTitleNormalizer == [k \in {} |-> <<>>]

\* titleNormalizer.observe
observe(t, value) ==
    LET raw == TrimSpace(value)
        key == ToLower(raw)
    IN  IF raw = <<>> THEN t
        ELSE IF key \in DOMAIN t
             THEN IF isAllUpper(t[key]) /\ ~isAllUpper(raw) THEN [t EXCEPT ![key] = raw] ELSE t
             ELSE [k \in DOMAIN t \cup {key} |-> IF k = key THEN raw ELSE t[k]]

\* titleNormalizer.normalize
normalize(t, value) ==
    LET raw == TrimSpace(value)
        key == ToLower(raw)
    IN  IF raw = <<>> THEN <<>>
        ELSE IF key \in DOMAIN t THEN t[key] ELSE raw

RECURSIVE seedTitleNormalizerFromTravelways(_, _, _)
seedTitleNormalizerFromTravelways(fc, n, titles) ==
    IF n = 0 THEN titles
    ELSE observe(seedTitleNormalizerFromTravelways(fc, n - 1, titles),
                 MustString(fc[n].props, "LOCATION", <<>>))

RECURSIVE seedTitleNormalizerFromBike(_, _, _)
seedTitleNormalizerFromBike(fc, n, titles) ==
    IF n = 0 THEN titles
    ELSE observe(observe(seedTitleNormalizerFromBike(fc, n - 1, titles),
                         MustString(fc[n].props, "BIKE_NAME", <<>>)),
                 MustString(fc[n].props, "STREETNAME", <<>>))

\* travelwayNoPlowLines over the first n features.
RECURSIVE travelwayNoPlowLines(_, _)
travelwayNoPlowLines(fc, n) ==
    IF n = 0 THEN <<>>
    ELSE LET props == fc[n].props
             flat == flattenLineString(fc[n].geometry)
             rest == travelwayNoPlowLines(fc, n - 1)
         IN  IF isPrivateOwner(TrimSpace(MustString(props, "OWNER", <<>>))) THEN rest
             ELSE IF ~isNotPlowed(props) THEN rest
             ELSE IF flat.err \/ ~flat.ok THEN rest
             ELSE Append(rest, [coords |-> flat.ls, priority |-> 1,
                                objectID |-> MustInt(props, "OBJECTID", 0)])

\* One iteration of the loop of travelwayLines on feature f:
\* [feature (<<>> or one lineFeature), debug, err].
travelwayLine(f, titles) ==
    LET props == f.props
        wintLOS == TrimSpace(MustString(props, "WINT_LOS", <<>>))
        parsed == priorityFromWintLOS(wintLOS)
        flat == flattenLineString(f.geometry)
        located == normalize(titles, MustString(props, "LOCATION", <<>>))
        title == IF EqualFold(located, <<"C", "O", "R", "N", "W", "A", "L", "L", "I", "S", " ", "S", "T">>)
                 THEN normalize(titles, <<"N", "o", "r", "a", " ", "B", "e", "r", "n", "a", "r", "d", " ", "S", "t">>)
                 ELSE located
        entry == [debugEntry EXCEPT !.Dataset = "travelways",
                                    !.ObjectID = MustInt(props, "OBJECTID", 0),
                                    !.Title = MustString(props, "LOCATION", <<>>),
                                    !.WintPlow = TrimSpace(MustString(props, "WINT_PLOW", <<>>)),
                                    !.WintLOS = wintLOS]
        skip(reason) == [feature |-> <<>>, debug |-> [entry EXCEPT !.Reason = reason], err |-> FALSE]
    IN  IF isPrivateOwner(TrimSpace(MustString(props, "OWNER", <<>>))) THEN skip("OWNER=PRIV")
        ELSE IF isNotPlowed(props) THEN skip("WINT_PLOW=N")
        ELSE IF ~parsed.ok THEN skip("missing or invalid WINT_LOS")
        ELSE IF flat.err
             THEN [feature |-> <<>>, debug |-> [entry EXCEPT !.Reason = "invalid geometry"], err |-> TRUE]
        ELSE IF ~flat.ok THEN skip("empty geometry")
        ELSE [feature |-> <<[title |-> title, priority |-> parsed.priority, coords |-> flat.ls,
                             sourceDataset |-> datasetTravelways,
                             objectID |-> MustInt(props, "OBJECTID", 0)]>>,
              debug |-> [entry EXCEPT !.Title = title, !.Included = TRUE, !.Reason = "included",
                                      !.Priority = parsed.priority, !.Coords = flat.ls],
              err |-> FALSE]

\* travelwayLines from feature k on: [features, debug, err]; an invalid
\* geometry ends the loop with the error.
RECURSIVE travelwayLines(_, _, _, _, _)
travelwayLines(fc, k, titles, features, debug) ==
    IF k > Len(fc) THEN [features |-> features, debug |-> debug, err |-> FALSE]
    ELSE LET r == travelwayLine(fc[k], titles)
         IN  IF r.err THEN [features |-> <<>>, debug |-> Append(debug, r.debug), err |-> TRUE]
             ELSE travelwayLines(fc, k + 1, titles, features \o r.feature, Append(debug, r.debug))

\* travelwayTitleMap over the first n features: object id -> title, a later
\* feature overwriting an earlier one.
RECURSIVE travelwayTitleMap(_, _)
travelwayTitleMap(features, n) ==
    IF n = 0 THEN [k \in {} |-> <<>>]
    ELSE LET m == travelwayTitleMap(features, n - 1)
             feature == features[n]
         IN  IF feature.objectID = 0 \/ feature.title = <<>> THEN m
             ELSE [k \in DOMAIN m \cup {feature.objectID} |->
                      IF k = feature.objectID THEN feature.title ELSE m[k]]

\* linesForIndex
linesForIndex(features) ==
    [i \in 1..Len(features) |->
        [coords |-> features[i].coords, priority |-> features[i].priority,
         objectID |-> features[i].objectID]]

\* iceRouteLines from feature k on: [lines, err].
RECURSIVE iceRouteLines(_, _, _)
iceRouteLines(fc, k, lines) ==
    IF k > Len(fc)
    THEN IF Len(lines) = 0 THEN [lines |-> <<>>, err |-> "no ice route lines"]
         ELSE [lines |-> lines, err |-> ""]
    ELSE LET priorityStr == TrimSpace(MustString(fc[k].props, "PRIORITY", <<>>))
             parsed == Atoi(priorityStr)
             flat == flattenLineString(fc[k].geometry)
         IN  IF priorityStr = <<>> THEN iceRouteLines(fc, k + 1, lines)
             ELSE IF parsed.err \/ parsed.value < 1 \/ parsed.value > 3
                  THEN [lines |-> <<>>, err |-> "invalid ice route priority"]
             ELSE IF flat.err THEN [lines |-> <<>>, err |-> "unknown geometry type"]
             ELSE IF ~flat.ok THEN iceRouteLines(fc, k + 1, lines)
             ELSE iceRouteLines(fc, k + 1,
                                Append(lines, [coords |-> flat.ls, priority |-> parsed.value,
                                               objectID |-> 0]))

\* ------------------------------------------------------------------------
\* Matching policy of the bike features
\* ------------------------------------------------------------------------

\* bikeTitle: [title, titleFromType].
bikeTitle(props, titles) ==
    LET name == normalize(titles, MustString(props, "BIKE_NAME", <<>>))
        street == normalize(titles, MustString(props, "STREETNAME", <<>>))
    IN  IF name # <<>> THEN [title |-> name, titleFromType |-> FALSE]
        ELSE IF street # <<>> THEN [title |-> street, titleFromType |-> FALSE]
        ELSE [title |-> normalize(titles, MustString(props, "BIKETYPE", <<>>)),
              titleFromType |-> TRUE]

\* idx.nearestMatch with the thresholds th of the run (the flags
\* max-match-meters, max-angle-deg, max-overall-angle-deg) and the given bias.
Query(idx, ls, th, bias, arch) ==
    nearestMatch(idx, ls, th.maxDistanceMeters, th.maxAngleRad, th.maxOverallAngleRad, bias, arch)

\* The fallback of bikeLines for a feature without a match: the feature's
\* own WINT_LOS.
fallbackWintLOSUnchecked(props) ==
    [found |-> TRUE, priority |-> priorityFromWintLOS(MustString(props, "WINT_LOS", <<>>)).priority,
     sourceDataset |-> datasetBike, reason |-> "fallback WINT_LOS"]

fallbackWintLOSAsTravelways(props) ==
    LET fallback == priorityFromWintLOS(MustString(props, "WINT_LOS", <<>>))
    IN  [found |-> fallback.ok, priority |-> fallback.priority,
         sourceDataset |-> datasetTravelways, reason |-> "fallback WINT_LOS"]

fallbackWintLOS(props) ==
    LET fallback == priorityFromWintLOS(MustString(props, "WINT_LOS", <<>>))
    IN  IF fallback.ok
        THEN [found |-> TRUE, priority |-> fallback.priority,
              sourceDataset |-> datasetBike, reason |-> "fallback WINT_LOS"]
        ELSE [found |-> FALSE, priority |-> 0, sourceDataset |-> 0, reason |-> ""]

\* The debugEntry fields that every entry of bikeLines copies from the
\* feature.
bikeDebugEntry(props) ==
    [debugEntry EXCEPT !.Dataset = "bike",
                       !.ObjectID = MustInt(props, "OBJECTID", 0),
                       !.Title = MustString(props, "BIKE_NAME", <<>>),
                       !.WintPlow = TrimSpace(MustString(props, "WINT_PLOW", <<>>)),
                       !.WintLOS = TrimSpace(MustString(props, "WINT_LOS", <<>>)),
                       !.BikeType = MustString(props, "BIKETYPE", <<>>),
                       !.ProtType = MustString(props, "PROT_TYPE", <<>>),
                       !.BikeName = MustString(props, "BIKE_NAME", <<>>),
                       !.StreetName = MustString(props, "STREETNAME", <<>>)]

bikeSkipSilent(entry) == [kind |-> "skip", feature |-> <<>>, debug |-> <<>>]

bikeSkip(entry) == [kind |-> "skip", feature |-> <<>>, debug |-> <<entry>>]

\* bikeLines, the title resolution: a title taken from the type code is
\* replaced by the title of the travelway travelwayID, if it has one.
bikeResolveTitle(named, travelwayID, travelwayTitles) ==
    IF /\ named.titleFromType
       /\ travelwayID # 0
       /\ travelwayID \in DOMAIN travelwayTitles
       /\ travelwayTitles[travelwayID] # <<>>
    THEN travelwayTitles[travelwayID]
    ELSE named.title

bikeLineEmitAlways(entry, ls, protected, match, chosen, title) ==
    [kind |-> "emit",
     feature |-> <<[title |-> title, priority |-> chosen.priority, coords |-> ls,
                    sourceDataset |-> chosen.sourceDataset, objectID |-> 0]>>,
     debug |-> <<[entry EXCEPT !.Title = title, !.Included = TRUE, !.Reason = chosen.reason,
                               !.Priority = chosen.priority,
                               !.ProtectedBike = protected,
                               !.SourceDataset = datasetName(chosen.sourceDataset),
                               !.MatchDistance = match.distance, !.Coords = ls]>>]

\* bikeLines, the end of an iteration: the feature is skipped without a
\* priority and emitted with one.
bikeLineEmit(entry, ls, protected, match, chosen, title) ==
    IF ~chosen.found
    THEN bikeSkip([entry EXCEPT !.Title = title, !.Reason = "no match",
                                !.ProtectedBike = protected, !.Coords = ls])
    ELSE [kind |-> "emit",
          feature |-> <<[title |-> title, priority |-> chosen.priority, coords |-> ls,
                         sourceDataset |-> chosen.sourceDataset, objectID |-> 0]>>,
          debug |-> <<[entry EXCEPT !.Title = title, !.Included = TRUE, !.Reason = chosen.reason,
                                    !.Priority = chosen.priority,
                                    !.ProtectedBike = protected,
                                    !.SourceDataset = datasetName(chosen.sourceDataset),
                                    !.MatchDistance = match.distance, !.Coords = ls]>>]

\* bikeLines, the matching of a feature with line string ls: noPlow is the
\* result of the no-plow query of a protected feature and match the result
\* of its travelways query, or of the ice query of an unprotected feature.
bikeLineMatch(props, entry, ls, named, protected, noPlow, match, travelwaysIndex, travelwayTitles, th, arch) ==
    IF protected /\ noPlow.objectID # 0
    THEN bikeSkip([entry EXCEPT !.Title = named.title, !.Reason = "matched no-plow travelway",
                                !.ProtectedBike = TRUE, !.Coords = ls,
                                !.NoPlowObjectID = noPlow.objectID,
                                !.NoPlowDistance = noPlow.distance])
    ELSE bikeLineEmit(entry, ls, protected, match,
                      IF match.hasMatch
                      THEN [found |-> TRUE, priority |-> match.priority,
                            sourceDataset |-> IF protected THEN datasetTravelways ELSE datasetIce,
                            reason |-> IF protected THEN "matched travelways" ELSE "matched ice"]
                      ELSE fallbackWintLOS(props),
                      bikeResolveTitle(named,
                                       IF protected /\ match.objectID # 0 THEN match.objectID
                                       ELSE Query(travelwaysIndex, ls, th, 0, arch).objectID,
                                       travelwayTitles))

\* One iteration of the loop of bikeLines on feature f:
\* [kind ("skip", "emit" or "err"), feature, debug].  noPlowIndex is
\* [err |-> "nil"] when there is no no-plow travelway.
bikeLine(f, titles, travelwaysIndex, travelwayTitles, noPlowIndex, iceIndex, th, arch) ==
    LET flat == flattenLineString(f.geometry)
        protected == isProtectedBike(f.props)
    IN  IF isNotPlowed(f.props) THEN bikeSkip([bikeDebugEntry(f.props) EXCEPT !.Reason = "WINT_PLOW=N"])
        ELSE IF flat.err THEN [kind |-> "err", feature |-> <<>>, debug |-> <<>>]
        ELSE IF ~flat.ok
             THEN bikeSkip([bikeDebugEntry(f.props) EXCEPT !.Reason = "empty geometry"])
        ELSE bikeLineMatch(f.props, bikeDebugEntry(f.props), flat.ls, bikeTitle(f.props, titles),
                           protected,
                           IF protected /\ noPlowIndex.err = ""
                           THEN Query(noPlowIndex, flat.ls, th, 0, arch) ELSE NoMatch,
                           Query(IF protected THEN travelwaysIndex ELSE iceIndex, flat.ls, th,
                                 th.priorityBiasMeters, arch),
                           travelwaysIndex, travelwayTitles, th, arch)

\* ------------------------------------------------------------------------
\* Binary encoder: encodeFeatures, writeFeaturesBin
\* ------------------------------------------------------------------------

\* The range of Go's int32.
MaxInt32 == 2147483647

MinInt32 == -MaxInt32 - 1

\* A float64 bound of encodeFeatures: math.MaxFloat64 (or its negation)
\* until a coordinate has been seen, the coordinate afterwards.
MaxFloat64 == [inf |-> TRUE, v |-> 0]

Float(v) == [inf |-> FALSE, v |-> v]

\* The difference c - m (c >= m) of two coordinates may need 33 bits; it is
\* carried as <<hi, lo>>, standing for 2 * hi + lo with lo \in {0, 1}, so hi
\* is the whole number of microdegrees and lo the odd half.
WideSub(c, m) ==
    LET hi == (c \div 2) - (m \div 2)
        lo == (c % 2) - (m % 2)
    IN  IF lo < 0 THEN <<hi - 1, lo + 2>> ELSE <<hi, lo>>

WideLE(a, b) == a[1] < b[1] \/ (a[1] = b[1] /\ a[2] <= b[2])

WideMinus(a, b) ==
    IF a[2] < b[2] THEN <<a[1] - b[1] - 1, a[2] - b[2] + 2>> ELSE <<a[1] - b[1], a[2] - b[2]>>

WideDouble(a) == <<2 * a[1] + a[2], 0>>

\* floor(n * x / b) for 0 <= x < b and n a power of two, by binary long
\* division: x / b is exact in the quotient's leading bits, as the float64
\* division is, and multiplying by a power of two is exact.
RECURSIVE ScaledFloor(_, _, _)
ScaledFloor(x, b, n) ==
    IF n = 1 THEN 0
    ELSE LET rest == WideMinus(b, x)
         IN  IF WideLE(rest, x)
             THEN (n \div 2) + ScaledFloor(WideMinus(x, rest), b, n \div 2)
             ELSE ScaledFloor(WideDouble(x), b, n \div 2)

\* int32(math.Round((c - m) * 1000000)), for c >= m.  math.Round rounds half
\* away from zero.  When the rounded value exceeds MaxInt32 the conversion
\* is implementation-dependent (Go spec, Conversions): amd64 yields the
\* "integer indefinite" value MinInt32, arm64 saturates at MaxInt32.
roundDelta(c, m, arch) ==
    LET w == WideSub(c, m)
    IN  IF w[2] = 0 THEN w[1]
        ELSE IF w[1] < MaxInt32 THEN w[1] + 1
        ELSE IF arch = "amd64" THEN MinInt32 ELSE MaxInt32

\* binary.Write of the fixed-size integers, little-endian.
Uint16LE(v) == <<v % 256, v \div 256>>

Uint32LE(v) == <<v % 256, (v \div 256) % 256, (v \div 65536) % 256, v \div 16777216>>

Int32LE(v) ==
    IF v >= 0 THEN Uint32LE(v)
    ELSE LET u == Uint32LE(v - MinInt32) IN <<u[1], u[2], u[3], u[4] + 128>>

\* binary.Write of a float64: eight bytes.  math.MaxFloat64 has its IEEE 754
\* bytes; the bytes of a coordinate are modelled by an injective eight-byte
\* code of its value.
Float64LE(f) ==
    IF f.inf THEN <<255, 255, 255, 255, 255, 255, 239, 127>>
    ELSE Int32LE(f.v) \o <<0, 0, 0, 0>>

\* []byte(title): the titles of the model are printable ASCII; the double
\* quote, the backslash and the backtick are named, every other character stands for
\* itself.
AsciiPrintable ==
    <<" ", "!", "quote", "#", "$", "%", "&", "'", "(", ")", "*", "+", ",", "-", ".", "/",
      "0", "1", "2", "3", "4", "5", "6", "7", "8", "9", ":", ";", "<", "=", ">", "?",
      "@", "A", "B", "C", "D", "E", "F", "G", "H", "I", "J", "K", "L", "M", "N", "O",
      "P", "Q", "R", "S", "T", "U", "V", "W", "X", "Y", "Z", "[", "backslash", "]", "^", "_",
      "backtick", "a", "b", "c", "d", "e", "f", "g", "h", "i", "j", "k", "l", "m", "n", "o",
      "p", "q", "r", "s", "t", "u", "v", "w", "x", "y", "z", "{", "|", "}", "~">>

ByteOf(ch) == 31 + (CHOOSE i \in 1..95 : AsciiPrintable[i] = ch)

Bytes(s) == [i \in 1..Len(s) |-> ByteOf(s[i])]

cols == 8

rows == 4

\* The coordinates of the features, and their values on one axis (1:
\* longitude, 2: latitude).
CoordSet(features) ==
    UNION {{features[k].coords[i] : i \in 1..Len(features[k].coords)} :
           k \in 1..Len(features)}

AxisValues(coordSet, axis) == {c[axis] : c \in coordSet}

SetMin(S) == CHOOSE v \in S : \A w \in S : v <= w

SetMax(S) == CHOOSE v \in S : \A w \in S : v >= w

\* globalMinLon, globalMinLat, globalMaxLon, globalMaxLat after the first
\* loop; seen is FALSE while they still hold +-math.MaxFloat64.
globalBounds(featuresForSeg) ==
    LET all == CoordSet(featuresForSeg)
        lons == AxisValues(all, 1)
        lats == AxisValues(all, 2)
    IN  IF lons = {}
        THEN [seen |-> FALSE, minLon |-> 0, maxLon |-> 0, minLat |-> 0, maxLat |-> 0]
        ELSE [seen |-> TRUE, minLon |-> SetMin(lons), maxLon |-> SetMax(lons),
              minLat |-> SetMin(lats), maxLat |-> SetMax(lats)]

\* int((rep - lo) / (hi - lo) * n), 0 when hi = lo, clamped to 0..n-1.
gridIndex(rep, lo, hi, n) ==
    LET raw == IF hi > lo
               THEN IF rep = hi THEN n
                    ELSE ScaledFloor(WideSub(rep, lo), WideSub(hi, lo), n)
               ELSE 0
    IN  IF raw < 0 THEN 0 ELSE IF raw >= n THEN n - 1 ELSE raw

cellKeyLast(f, b) ==
    <<gridIndex(f.coords[Len(f.coords)][2], b.minLat, b.maxLat, rows),
      gridIndex(f.coords[Len(f.coords)][1], b.minLon, b.maxLon, cols)>>

\* The cellKey of a feature: the cell of its first coordinate.
cellKey(f, b) ==
    <<gridIndex(f.coords[1][2], b.minLat, b.maxLat, rows),
      gridIndex(f.coords[1][1], b.minLon, b.maxLon, cols)>>

\* segmentsMap after the second loop.  A Go map iterates in an order fixed
\* by the hash seed drawn when the map is made; the value keeps the seed
\* next to the entries.  Each entry lists its features in input order.
segmentsMap(featuresForSeg, b, hashSeed) ==
    [seed |-> hashSeed,
     entries |-> [key \in {cellKey(featuresForSeg[k], b) : k \in 1..Len(featuresForSeg)} |->
                     SelectSeq(featuresForSeg, LAMBDA f : cellKey(f, b) = key)]]

\* The cells in the order of the nested loops over range rows and range
\* cols.
RowMajor == [i \in 1..(rows * cols) |-> <<(i - 1) \div cols, (i - 1) % cols>>]

\* A variant that ranges over the map: the entries come in the runtime's
\* iteration order, which starts at an offset drawn from the hash seed and
\* wraps around.
segmentsRanged(m) ==
    LET ks == SelectSeq(RowMajor, LAMBDA key : key \in DOMAIN m.entries)
        n == Len(ks)
    IN  [i \in 1..n |->
            LET key == ks[((i - 1 + m.seed) % n) + 1]
            IN  [row |-> key[1], col |-> key[2], features |-> m.entries[key]]]

\* segments: the cells are scanned in row-major order and looked up in the
\* map; the map is never ranged over.
segments(m) ==
    LET ks == SelectSeq(RowMajor, LAMBDA key : key \in DOMAIN m.entries)
    IN  [i \in 1..Len(ks) |->
            [row |-> ks[i][1], col |-> ks[i][2], features |-> m.entries[ks[i]]]]

\* The bytes of one feature; on a capacity error, the bytes written before
\* it.
encodeFeature(f, b, arch) ==
    IF Len(f.title) > 255
    THEN [err |-> "title too long", bytes |-> <<>>]
    ELSE IF Len(f.coords) > 65535
    THEN [err |-> "too many coordinates",
          bytes |-> <<Len(f.title)>> \o Bytes(f.title) \o <<f.priority, f.sourceDataset>>]
    ELSE [err |-> "",
          bytes |-> <<Len(f.title)>> \o Bytes(f.title) \o <<f.priority, f.sourceDataset>>
                    \o Uint16LE(Len(f.coords))
                    \o Concat([i \in 1..Len(f.coords) |->
                                  Int32LE(roundDelta(f.coords[i][1], b.minLon, arch))
                                  \o Int32LE(roundDelta(f.coords[i][2], b.minLat, arch))],
                              Len(f.coords))]

RECURSIVE encodeSegmentFeatures(_, _, _, _, _)
encodeSegmentFeatures(fs, i, b, arch, out) ==
    IF i > Len(fs) THEN [err |-> "", bytes |-> out]
    ELSE LET one == encodeFeature(fs[i], b, arch)
         IN  IF one.err # ""
             THEN [err |-> one.err, bytes |-> out \o one.bytes]
             ELSE encodeSegmentFeatures(fs, i + 1, b, arch, out \o one.bytes)

\* The tight bounding box of a segment, as deltas from the global minimum,
\* and the number of its features.
segmentHeader(seg, b, arch) ==
    LET all == CoordSet(seg.features)
    IN  Int32LE(roundDelta(SetMin(AxisValues(all, 1)), b.minLon, arch))
        \o Int32LE(roundDelta(SetMin(AxisValues(all, 2)), b.minLat, arch))
        \o Int32LE(roundDelta(SetMax(AxisValues(all, 1)), b.minLon, arch))
        \o Int32LE(roundDelta(SetMax(AxisValues(all, 2)), b.minLat, arch))
        \o Uint32LE(Len(seg.features))

RECURSIVE encodeSegments(_, _, _, _, _)
encodeSegments(segs, i, b, arch, out) ==
    IF i > Len(segs) THEN [err |-> "", bytes |-> out]
    ELSE LET seg == encodeSegmentFeatures(segs[i].features, 1, b, arch,
                                          segmentHeader(segs[i], b, arch))
         IN  IF seg.err # ""
             THEN [err |-> seg.err, bytes |-> out \o seg.bytes]
             ELSE encodeSegments(segs, i + 1, b, arch, out \o seg.bytes)

fileHeader(segs, b) ==
    Uint32LE(Len(segs))
    \o Float64LE(IF b.seen THEN Float(b.minLon) ELSE MaxFloat64)
    \o Float64LE(IF b.seen THEN Float(b.minLat) ELSE MaxFloat64)

encodeBody(featuresForSeg, b, arch, hashSeed) ==
    LET segs == segments(segmentsMap(featuresForSeg, b, hashSeed))
    IN  encodeSegments(segs, 1, b, arch, fileHeader(segs, b))

\* encodeFeatures(features, writer): the error returned and the bytes
\* written to the writer.
encodeFeatures(features, arch, hashSeed) ==
    IF Len(features) = 0
    THEN [err |-> "no features", bytes |-> <<>>]
    ELSE LET featuresForSeg == SelectSeq(features, LAMBDA f : Len(f.coords) > 0)
         IN  encodeBody(featuresForSeg, globalBounds(featuresForSeg), arch, hashSeed)

NoFile == [err |-> "", written |-> FALSE, data |-> <<>>]

\* writeFeaturesBin: the encoder writes into a buffer; the file is written
\* only when the encoder returned no error.
writeFeaturesBin(features, arch, hashSeed) ==
    LET out == encodeFeatures(features, arch, hashSeed)
    IN  IF out.err # ""
        THEN [err |-> out.err, written |-> FALSE, data |-> <<>>]
        ELSE [err |-> "", written |-> TRUE, data |-> out.bytes]

\* ------------------------------------------------------------------------
\* Decoder: readFeaturesBin
\* ------------------------------------------------------------------------

Have(data, pos, n) == pos + n - 1 <= Len(data)

ReadUint16(data, pos) == data[pos] + 256 * data[pos + 1]

ReadUint32(data, pos) ==
    data[pos] + 256 * data[pos + 1] + 65536 * data[pos + 2] + 16777216 * data[pos + 3]

ReadInt32(data, pos) ==
    IF data[pos + 3] >= 128
    THEN MinInt32 + (data[pos] + 256 * data[pos + 1] + 65536 * data[pos + 2]
                     + 16777216 * (data[pos + 3] - 128))
    ELSE ReadUint32(data, pos)

ReadFloat64(data, pos) ==
    IF SubSeq(data, pos, pos + 7) = Float64LE(MaxFloat64) THEN MaxFloat64
    ELSE Float(ReadInt32(data, pos))

String(bytes) == [i \in 1..Len(bytes) |-> AsciiPrintable[bytes[i] - 31]]

\* globalMin + float64(d)/1000000: the base and the count of microdegrees
\* added to it.
FixedPoint(base, d) == [base |-> base, micro |-> d]

\* One feature at pos: its fields, and the position after it.
readFeature(data, pos, minLon, minLat) ==
    IF ~Have(data, pos, 1) \/ ~Have(data, pos, data[pos] + 5)
    THEN [err |-> "EOF"]
    ELSE IF ~Have(data, pos, data[pos] + 5 + 8 * ReadUint16(data, pos + data[pos] + 3))
    THEN [err |-> "EOF"]
    ELSE [err |-> "",
          pos |-> pos + data[pos] + 5 + 8 * ReadUint16(data, pos + data[pos] + 3),
          feature |->
              [title |-> String(SubSeq(data, pos + 1, pos + data[pos])),
               priority |-> data[pos + data[pos] + 1],
               sourceDataset |-> data[pos + data[pos] + 2],
               coords |-> [k \in 1..ReadUint16(data, pos + data[pos] + 3) |->
                              <<FixedPoint(minLon, ReadInt32(data, pos + data[pos] + 5
                                                                   + 8 * (k - 1))),
                                FixedPoint(minLat, ReadInt32(data, pos + data[pos] + 9
                                                                   + 8 * (k - 1)))>>]]]

RECURSIVE readSegmentFeatures(_, _, _, _, _, _)
readSegmentFeatures(data, pos, n, minLon, minLat, out) ==
    IF n = 0 THEN [err |-> "", pos |-> pos, features |-> out]
    ELSE IF readFeature(data, pos, minLon, minLat).err # "" THEN [err |-> "EOF"]
    ELSE readSegmentFeatures(data, readFeature(data, pos, minLon, minLat).pos, n - 1,
                             minLon, minLat,
                             Append(out, readFeature(data, pos, minLon, minLat).feature))

\* The segments from pos on: four int32 of the bounding box (read and
\* ignored), the feature count, the features.
RECURSIVE readSegments(_, _, _, _, _, _)
readSegments(data, pos, n, minLon, minLat, out) ==
    IF n = 0 THEN [err |-> "", features |-> out]
    ELSE IF ~Have(data, pos, 20) THEN [err |-> "EOF"]
    ELSE IF readSegmentFeatures(data, pos + 20, ReadUint32(data, pos + 16),
                                minLon, minLat, out).err # ""
    THEN [err |-> "EOF"]
    ELSE readSegments(data,
                      readSegmentFeatures(data, pos + 20, ReadUint32(data, pos + 16),
                                          minLon, minLat, out).pos,
                      n - 1, minLon, minLat,
                      readSegmentFeatures(data, pos + 20, ReadUint32(data, pos + 16),
                                          minLon, minLat, out).features)

NotRead == [err |-> "not read"]

readFeaturesBin(data) ==
    IF ~Have(data, 1, 20) THEN [err |-> "EOF"]
    ELSE readSegments(data, 21, ReadUint32(data, 1), ReadFloat64(data, 5),
                      ReadFloat64(data, 13), <<>>)

\* ------------------------------------------------------------------------
\* Input domains of the matcher
\* ------------------------------------------------------------------------

\* The coordinate of the grid point (x, y), in steps of 1e-4 degree.
T(x, y) == <<x * 200, y * 200>>

\* Largest latitude step of the east-west reference lines.
MaxLat == 3

\* Most reference lines in one index.
MaxRef == 2

\* Largest match distance, in planar units.
MaxMeters == 3

\* Reference geometries: east-west lines at each latitude step, a slanted
\* line (26.6 degrees off east-west), a north-south line, a line that starts
\* with a zero-length segment and a single point further east.
RefPool ==
    [i \in 1..(MaxLat + 4) |->
        IF i <= MaxLat THEN <<T(0, i), T(2, i)>>
        ELSE CASE i = MaxLat + 1 -> <<T(0, 2), T(2, 3)>>
               [] i = MaxLat + 2 -> <<T(1, 0), T(1, 2)>>
               [] i = MaxLat + 3 -> <<T(0, 1), T(0, 1), T(2, 1)>>
               [] OTHER -> <<T(3, 1)>>]

Priorities == 1..3

\* The reference sets: up to n pool lines taken in pool order from line
\* `first` on, each with a priority; the object id of a line is its pool
\* number.
RECURSIVE RefSeqsFrom(_, _)
RefSeqsFrom(first, n) ==
    IF n = 0 \/ first > Len(RefPool) THEN {<<>>}
    ELSE {<<>>} \cup
         UNION {{<<[coords |-> RefPool[i], priority |-> p, objectID |-> i]>> \o rest :
                    p \in Priorities, rest \in RefSeqsFrom(i + 1, n - 1)} :
                    i \in first..Len(RefPool)}

RefSets == RefSeqsFrom(1, MaxRef) \ {<<>>}

QueryPool ==
    {<<T(0, 0), T(2, 0)>>, <<T(0, 0), T(2, 1)>>, <<T(1, 0)>>,
     <<T(0, 0), T(0, 0), T(2, 0)>>, <<>>}

\* maxDistanceMeters, maxAngleRad (in degrees), maxOverallAngleRad (in
\* degrees), priorityBiasMeters.
Thresholds ==
    {[maxDistanceMeters |-> d, maxAngleRad |-> a[1], maxOverallAngleRad |-> a[2],
      priorityBiasMeters |-> b] :
        d \in {MaxMeters - 2, MaxMeters}, a \in {<<30, 60>>, <<0, 0>>}, b \in {-1, 0, 1}}

\* The float-to-int conversion behaviour of the build.
Archs == {"amd64", "arm64"}

\* ------------------------------------------------------------------------
\* Input domains of the pipeline
\* ------------------------------------------------------------------------

Str(s) == [s |-> s]

Num(n) == [n |-> n]

\* The east-west line of 0.001 degree at latitude step y, and the
\* north-south line at longitude step x.
EastWest(y) == [type |-> "LineString", coords |-> <<T(0, y), T(10, y)>>]

NorthSouth(x) == [type |-> "LineString", coords |-> <<T(x, 0), T(x, 4)>>]

sY == <<"Y">>

sN == <<"N">>

sPRI1 == <<"P", "R", "I", "1">>

sPRI2 == <<"P", "R", "I", "2">>

sHRM == <<"H", "R", "M">>

Travelway(id, plow, los, owner, location, geometry) ==
    [props |-> [OBJECTID |-> id, WINT_PLOW |-> plow, WINT_LOS |-> los, OWNER |-> owner,
                LOCATION |-> location],
     geometry |-> geometry]

\* Travelway features: plowed lines one and two steps north of the bike
\* lines, no-plow lines at the same places (one without an object id), a
\* private, an unrated, an empty and a non-line feature, and plowed and
\* no-plow north-south lines east of everything.
TravelwayPool ==
    [plowedNear |-> Travelway(Num(1), Str(sY), Str(sPRI1), Str(sHRM), Str(<<"M", "a", "i", "n">>), EastWest(1)),
     plowedFar |-> Travelway(Num(2), Str(sY), Str(<<" ", "2">>), Str(sHRM), Str(<<"M", "A", "I", "N">>), EastWest(2)),
     noPlowNear |-> Travelway(Num(3), Str(sN), Null, Str(sHRM), Str(<<"L", "a", "n", "e">>), EastWest(1)),
     noPlowFar |-> Travelway(Num(4), Str(<<" ", "n">>), Str(sPRI1), Str(sHRM), Null, EastWest(2)),
     noPlowNoID |-> Travelway(Null, Str(sN), Null, Null, Str(<<"L", "a", "n", "e">>), EastWest(1)),
     private |-> Travelway(Num(6), Str(sY), Str(sPRI1), Str(<<"p", "r", "i", "v", " ">>), Null, EastWest(1)),
     unrated |-> Travelway(Num(7), Null, Str(<<"P", "R", "I", "5">>), Str(sHRM), Null, EastWest(1)),
     empty |-> Travelway(Num(8), Str(sY), Str(sPRI1), Str(sHRM), Null,
                         [type |-> "MultiLineString", coords |-> <<>>]),
     point |-> Travelway(Num(9), Str(sY), Str(sPRI1), Str(sHRM), Null, [type |-> "Point"]),
     plowedEast |-> Travelway(Num(10), Str(sY), Str(<<"P", "R", "I", "3">>), Str(sHRM),
                              Str(<<"E", "A", "S", "T">>), NorthSouth(12)),
     noPlowEast |-> Travelway(Num(11), Str(sN), Null, Str(sHRM), Null, NorthSouth(12))]

TravelwayFCs ==
    LET p == TravelwayPool
    IN  {<<p.plowedNear>>,
         <<p.plowedNear, p.noPlowFar>>,
         <<p.plowedNear, p.noPlowFar, p.plowedEast, p.noPlowEast>>,
         <<p.plowedFar, p.noPlowNear, p.plowedEast, p.noPlowEast>>,
         <<p.plowedNear, p.noPlowNoID, p.plowedEast, p.noPlowEast>>,
         <<p.plowedFar, p.noPlowNoID, p.plowedEast, p.noPlowEast>>,
         <<p.plowedFar, p.plowedNear, p.plowedEast>>,
         <<p.private, p.unrated, p.empty, p.plowedFar>>,
         <<p.plowedNear, p.point>>,
         <<p.private>>}

IceRoute(priority, geometry) == [props |-> [PRIORITY |-> priority], geometry |-> geometry]

IceFCs ==
    {<<IceRoute(Str(<<"2">>), EastWest(1))>>,
     <<IceRoute(Str(<<"3">>), EastWest(2)), IceRoute(Num(1), EastWest(1)),
       IceRoute(Str(<<"2">>), EastWest(1)), IceRoute(Str(<<" ", "1">>), NorthSouth(12))>>,
     <<IceRoute(Str(<<"2">>), EastWest(1)), IceRoute(Str(<<"4">>), EastWest(2))>>,
     <<IceRoute(Null, EastWest(1)), IceRoute(Str(<<"1">>), [type |-> "LineString", coords |-> <<>>])>>}

Bike(id, plow, los, bikeType, protType, name, street, geometry) ==
    [props |-> [OBJECTID |-> id, WINT_PLOW |-> plow, WINT_LOS |-> los, BIKETYPE |-> bikeType,
                PROT_TYPE |-> protType, BIKE_NAME |-> name, STREETNAME |-> street],
     geometry |-> geometry]

sONSTREET == <<"O", "N", "S", "T", "R", "E", "E", "T">>

sNONE == <<"N", "O", "N", "E">>

\* Bike features: on the base line (latitude step 0) or far north of every
\* reference line (latitude step 8).
BikePool ==
    {Bike(Num(10), Str(sY), Str(sPRI1), Str(<<"P", "R", "O", "T", "B", "L">>), Str(<<"C", "U", "R", "B">>),
          Str(<<"P", "r", "o", "t">>), Str(<<"m", "a", "i", "n">>), EastWest(0)),
     Bike(Num(12), Str(sY), Str(sPRI1), Str(sONSTREET), Str(sNONE),
          Str(<<"U", "n", "p", "r", "o", "t">>), Null, EastWest(0)),
     Bike(Num(13), Str(sY), Str(<<" ", "P", "R", "I", "2">>), Str(sONSTREET), Str(sNONE),
          Null, Str(<<"m", "a", "i", "n">>),
          [type |-> "MultiLineString",
           coords |-> <<<<T(0, 8), T(5, 8)>>, <<T(5, 8), T(10, 8)>>>>]),
     Bike(Num(14), Str(sY), Null, Str(sONSTREET), Str(<<"n", "o", "n", "e">>),
          Str(<<"U", "n", "p", "r", "o", "t">>), Null, EastWest(8)),
     Bike(Num(15), Str(<<"n", " ">>), Str(sPRI1), Str(sONSTREET), Str(sNONE),
          Str(<<"P", "r", "o", "t">>), Null, EastWest(0)),
     Bike(Num(16), Null, Str(<<"P", "R", "I", "5">>), Str(<<"M", "U", "P", "A", "T", "H">>), Str(sNONE),
          Null, Null, EastWest(0)),
     Bike(Num(17), Str(sY), Str(sPRI1), Str(sONSTREET), Null, Null, Null,
          [type |-> "MultiLineString", coords |-> <<>>]),
     Bike(Num(18), Str(sY), Str(sPRI1), Str(sONSTREET), Null, Null, Null, [type |-> "Point"]),
     Bike(Null, Str(sY), Str(<<"3">>), Null, Str(<<"c", "u", "r", "b">>), Null, Null, EastWest(8))}

\* Most features of a bike collection.
MaxBike == 2

RECURSIVE BikeFCsOf(_)
BikeFCsOf(n) ==
    IF n = 0 THEN {<<>>}
    ELSE LET shorter == BikeFCsOf(n - 1)
         IN  shorter \cup {Append(fc, f) : fc \in {x \in shorter : Len(x) = n - 1}, f \in BikePool}

BikeFCs == BikeFCsOf(MaxBike)

\* The flags of a run: the default angles and bias, and the largest match
\* distance.
Flags ==
    {th \in Thresholds :
        th.maxDistanceMeters = MaxMeters /\ th.maxAngleRad = 30 /\ th.priorityBiasMeters = 1}

\* ------------------------------------------------------------------------
\* cmd/events: times
\*
\* A time.Time is modelled as its civil reading [y, mo, d, h, mi] in the
\* location of the observation (America/Halifax), to the minute; the order
\* of two times is the order of their civil readings (the model has no
\* change of the clock offset).  time.Time{} is year 1, January 1, 00:00.
\* ------------------------------------------------------------------------

Civil(y, mo, d, h, mi) == [y |-> y, mo |-> mo, d |-> d, h |-> h, mi |-> mi]

\* time.Time{}
ZeroTime == Civil(1, 1, 1, 0, 0)

IsZero(t) == t = ZeroTime

\* Time.After
After(a, b) ==
    \/ a.y > b.y
    \/ a.y = b.y /\ a.mo > b.mo
    \/ a.y = b.y /\ a.mo = b.mo /\ a.d > b.d
    \/ a.y = b.y /\ a.mo = b.mo /\ a.d = b.d /\ a.h > b.h
    \/ a.y = b.y /\ a.mo = b.mo /\ a.d = b.d /\ a.h = b.h /\ a.mi > b.mi

\* The days of a month, with isLeap for February.
daysIn(mo, y) ==
    LET isLeap == y % 4 = 0 /\ (y % 100 # 0 \/ y % 400 = 0)
    IN  IF mo = 2 THEN (IF isLeap THEN 29 ELSE 28)
        ELSE IF mo \in {4, 6, 9, 11} THEN 30 ELSE 31

\* time.Date's normalisation of the day: a day below 1 or beyond the end
\* of the month carries into the neighbouring months (mo is in 1..12).
RECURSIVE NormDay(_, _, _, _, _)
NormDay(y, mo, d, h, mi) ==
    IF d < 1
    THEN IF mo = 1 THEN NormDay(y - 1, 12, d + 31, h, mi)
         ELSE NormDay(y, mo - 1, d + daysIn(mo - 1, y), h, mi)
    ELSE IF d > daysIn(mo, y)
    THEN IF mo = 12 THEN NormDay(y + 1, 1, d - 31, h, mi)
         ELSE NormDay(y, mo + 1, d - daysIn(mo, y), h, mi)
    ELSE Civil(y, mo, d, h, mi)

\* time.Date(y, mo, d, h, mi, ...) with a month and a day of any value: the
\* month is normalised first, then the day.
Date(y, mo, d, h, mi) ==
    NormDay(y + ((mo - 1) \div 12), ((mo - 1) % 12) + 1, d, h, mi)

\* Time.AddDate
AddDate(t, years, months, days) == Date(t.y + years, t.mo + months, t.d + days, t.h, t.mi)

\* ------------------------------------------------------------------------
\* cmd/events: parseUpdateTime
\*
\* A text is the sequence of its words, a word being a record [k, v]: k is
\* the kind of the word as the text spells it and v the three numbers it
\* carries (0 where it carries fewer).
\*   "num"      a number of one or two digits (an hour or a day), v[1]
\*   "clock"    hours and minutes with a colon, v = <<hour, minute, 0>>
\*   "mdy"      month/day/year with slashes, v = <<month, day, year>>
\*   "a.m.", "p.m.", "AM", "PM"   the half of the day
\*   "p.m.7"    the misprint of "p.m." the feed once carried
\*   "noon"     the word noon
\*   "at"       the word at
\*   "sep"      one of | - . ,
\*   "Jan", "January"   a month name, short or in full, v[1] the month
\*   "Mon", "Monday"    a weekday name, short or in full
\*   "N/A"      the text N/A or N\A in any case
\*   "word"     any other word
\* No text has two words "at" next to each other.
\* ------------------------------------------------------------------------

Word(k, a, b, c) == [k |-> k, v |-> <<a, b, c>>]

\* A word that carries no number.
Other(k) == Word(k, 0, 0, 0)

\* The text as the layouts see it.  The separators | - . , become spaces (a
\* separator at an end of the text is a space the first TrimSpace does not
\* see); the word at goes where it has a space on both sides, which is
\* everywhere but at the two ends of the text; the spaces are squeezed and
\* trimmed; a.m. and p.m. become AM and PM ("p.m.7" becomes "PM7", which no
\* layout reads) and noon becomes 12 PM.
NormaliseText(txt) ==
    LET spaced == [i \in 1..Len(txt) |->
                      IF txt[i].k = "sep" THEN Other("space") ELSE txt[i]]
        noAt == {i \in 1..Len(txt) : spaced[i].k # "at" \/ i = 1 \/ i = Len(txt)}
        RECURSIVE Words(_)
        Words(i) ==
            IF i > Len(txt) THEN <<>>
            ELSE LET w == spaced[i]
                     rest == Words(i + 1)
                 IN  CASE i \notin noAt \/ w.k = "space" -> rest
                       [] w.k = "a.m." -> <<Other("AM")>> \o rest
                       [] w.k = "p.m." -> <<Other("PM")>> \o rest
                       [] w.k = "p.m.7" -> <<Other("word")>> \o rest
                       [] w.k = "noon" -> <<Word("num", 12, 0, 0), Other("PM")>> \o rest
                       [] OTHER -> <<w>> \o rest
    IN  Words(1)

Layout(s, hasYear, hasDate, hasTime) ==
    [s |-> s, hasYear |-> hasYear, hasDate |-> hasDate, hasTime |-> hasTime]

\* The layouts of parseUpdateTime, in its order, each as the sequence of
\* the elements of its layout string.
formats == <<
    Layout(<<"1/2/2006", "3:04", "PM">>, TRUE, TRUE, TRUE),
    Layout(<<"3", "PM", "Jan", "2">>, FALSE, TRUE, TRUE),
    Layout(<<"3", "PM", "January", "2">>, FALSE, TRUE, TRUE),
    Layout(<<"3", "PM", "Mon", "Jan", "2">>, FALSE, TRUE, TRUE),
    Layout(<<"3", "PM", "Mon", "January", "2">>, FALSE, TRUE, TRUE),
    Layout(<<"3", "PM", "Monday", "Jan", "2">>, FALSE, TRUE, TRUE),
    Layout(<<"3", "PM", "Monday", "January", "2">>, FALSE, TRUE, TRUE),
    Layout(<<"3", "PM">>, FALSE, FALSE, TRUE),
    Layout(<<"3:04", "PM", "Jan", "2">>, FALSE, TRUE, TRUE),
    Layout(<<"3:04", "PM", "January", "2">>, FALSE, TRUE, TRUE),
    Layout(<<"3:04", "PM", "Mon", "Jan", "2">>, FALSE, TRUE, TRUE),
    Layout(<<"3:04", "PM", "Mon", "January", "2">>, FALSE, TRUE, TRUE),
    Layout(<<"3:04", "PM", "Monday", "Jan", "2">>, FALSE, TRUE, TRUE),
    Layout(<<"3:04", "PM", "Monday", "January", "2">>, FALSE, TRUE, TRUE),
    Layout(<<"3:04", "PM">>, FALSE, FALSE, TRUE),
    Layout(<<"Jan", "2", "3", "PM">>, FALSE, TRUE, TRUE),
    Layout(<<"Jan", "2", "3:04", "PM">>, FALSE, TRUE, TRUE),
    Layout(<<"January", "2", "3", "PM">>, FALSE, TRUE, TRUE),
    Layout(<<"January", "2", "3:04", "PM">>, FALSE, TRUE, TRUE),
    Layout(<<"Mon", "Jan", "2", "3", "PM">>, FALSE, TRUE, TRUE),
    Layout(<<"Mon", "Jan", "2", "3:04", "PM">>, FALSE, TRUE, TRUE),
    Layout(<<"Mon", "January", "2", "3", "PM">>, FALSE, TRUE, TRUE),
    Layout(<<"Mon", "January", "2", "3:04", "PM">>, FALSE, TRUE, TRUE),
    Layout(<<"Monday", "Jan", "2">>, FALSE, TRUE, FALSE),
    Layout(<<"Monday", "Jan", "2", "3", "PM">>, FALSE, TRUE, TRUE),
    Layout(<<"Monday", "Jan", "2", "3:04", "PM">>, FALSE, TRUE, TRUE),
    Layout(<<"Monday", "January", "2", "3", "PM">>, FALSE, TRUE, TRUE),
    Layout(<<"Monday", "January", "2", "3:04", "PM">>, FALSE, TRUE, TRUE) >>

\* time.ParseInLocation(format.s, txt, loc): every element of the layout
\* reads one word of the text; the fields are those the layout reads, a
\* missing year being 0, a missing month or day 1 and a missing hour or
\* minute 0; an hour above 12, a minute above 59 or a day the month does
\* not have (in the year read) is an error, and so is any text left over.
ParseInLocation(format, txt) ==
    LET Reads(e, w) ==
            CASE e = "3" -> w.k = "num"
              [] e = "2" -> w.k = "num"
              [] e = "PM" -> w.k \in {"AM", "PM"}
              [] e = "3:04" -> w.k = "clock"
              [] e = "1/2/2006" -> w.k = "mdy"
              [] OTHER -> w.k = e
        FieldOf(e, default) ==
            IF \E i \in 1..Len(format.s) : format.s[i] = e
            THEN txt[CHOOSE i \in 1..Len(format.s) : format.s[i] = e]
            ELSE default
        fits == /\ Len(txt) = Len(format.s)
                /\ \A i \in 1..Len(txt) : Reads(format.s[i], txt[i])
        mdy == FieldOf("1/2/2006", Word("mdy", 1, 1, 0)).v
        month == FieldOf("Jan", FieldOf("January", Word("Jan", mdy[1], 0, 0))).v[1]
        day == FieldOf("2", Word("num", mdy[2], 0, 0)).v[1]
        clock == FieldOf("3:04", Word("clock", FieldOf("3", Other("num")).v[1], 0, 0)).v
        half == FieldOf("PM", Other("")).k
        hour == IF half = "PM" /\ clock[1] < 12 THEN clock[1] + 12
                ELSE IF half = "AM" /\ clock[1] = 12 THEN 0
                ELSE clock[1]
        valid == /\ clock[1] <= 12
                 /\ clock[2] <= 59
                 /\ month \in 1..12
                 /\ day \in 1..daysIn(month, mdy[3])
    IN  IF fits /\ valid
        THEN [err |-> FALSE, t |-> Civil(mdy[3], month, day, hour, clock[2])]
        ELSE [err |-> TRUE, t |-> ZeroTime]

\* What parseUpdateTime makes of the time a layout has read: the year, the
\* date and the time of day the layout lacks come from the observation
\* time t.
Resolve(format, parsed0, t) ==
    LET y1 == IF format.hasYear THEN parsed0 ELSE AddDate(parsed0, t.y, 0, 0)
        y2 == IF ~format.hasYear /\ After(y1, t) THEN AddDate(y1, -1, 0, 0) ELSE y1
        d1 == IF format.hasDate THEN y2 ELSE AddDate(y2, 0, t.mo - 1, t.d)
        d2 == IF ~format.hasDate /\ After(d1, t) THEN AddDate(d1, 0, 0, -1) ELSE d1
        h1 == IF format.hasTime THEN d2 ELSE Civil(d2.y, d2.mo, d2.d, t.h, t.mi)
        h2 == IF ~format.hasTime /\ After(h1, t) THEN AddDate(h1, 0, 0, -1) ELSE h1
    IN  h2

RECURSIVE ParseLoop(_, _)
\* The loop of parseUpdateTime: the first layout that reads the whole text
\* gives the result; with none, the last word is dropped and the layouts
\* are tried again, until the text has no space left.
ParseLoop(txt, t) ==
    LET reading == {i \in 1..Len(formats) : ~ParseInLocation(formats[i], txt).err}
    IN  IF reading # {}
        THEN LET i == CHOOSE i \in reading : \A j \in reading : i <= j
             IN  [t |-> Resolve(formats[i], ParseInLocation(formats[i], txt).t, t), ok |-> TRUE]
        ELSE IF Len(txt) <= 1 THEN [t |-> ZeroTime, ok |-> FALSE]
        ELSE ParseLoop(SubSeq(txt, 1, Len(txt) - 1), t)

parseUpdateTime(txt, t) ==
    IF txt = <<>> \/ (Len(txt) = 1 /\ txt[1].k = "N/A")
    THEN [t |-> ZeroTime, ok |-> TRUE]
    ELSE ParseLoop(NormaliseText(txt), t)

\* ------------------------------------------------------------------------
\* cmd/events: the loop of main() over the observed changes
\*
\* An observation is [ID, Time, UpdateTime, ServiceUpdate, EndTime], the
\* two times as texts; a state is [o, s, eventID, updateTime, endTime] with
\* s the String() of the weatherEventState and eventID the date
\* <<year, month, day>> its text spells, <<>> for the empty string.
\* ------------------------------------------------------------------------

\* strings.CutSuffix(o.EndTime, "p.m.7") and the repair of the end time.
RepairEndTime(txt) ==
    IF txt # <<>> /\ txt[Len(txt)].k = "p.m.7"
    THEN [txt EXCEPT ![Len(txt)] = Other("p.m.")]
    ELSE txt

DerivedStateActiveFirst(updateTime, endTime) ==
    IF ~IsZero(updateTime) THEN "active"
    ELSE IF ~IsZero(endTime) THEN "ended"
    ELSE "dormant"

\* The state a change is given: ended with an end time, else active with
\* an update time, else dormant.
DerivedState(updateTime, endTime) ==
    IF ~IsZero(endTime) THEN "ended"
    ELSE IF ~IsZero(updateTime) THEN "active"
    ELSE "dormant"

StartsEventAlsoSameEnd(s, newS, endTime) ==
    \/ s.s = "dormant" /\ (newS = "active" \/ newS = "ended")
    \/ s.s = "ended" /\ newS = "active"
    \/ s.s = "ended" /\ newS = "ended"

StartsEventNotFromDormant(s, newS, endTime) ==
    \/ s.s = "ended" /\ newS = "active"
    \/ s.s = "ended" /\ newS = "ended" /\ endTime # s.endTime

\* dormantNew || endedNew || endChange
StartsEvent(s, newS, endTime) ==
    LET dormantNew == s.s = "dormant" /\ (newS = "active" \/ newS = "ended")
        endedNew == s.s = "ended" /\ newS = "active"
        endChange == s.s = "ended" /\ newS = "ended" /\ endTime # s.endTime
    IN  dormantNew \/ endedNew \/ endChange

\* The event id of a change that starts an event.
NewEventID(updateTime, endTime) ==
    LET eventTime == IF IsZero(updateTime) THEN endTime ELSE updateTime
    IN  <<eventTime.y, eventTime.mo, eventTime.d>>

\* newState of main() for the observation o after the state s.
NewState(s, o, updateTime, endTime) ==
    LET newS == DerivedState(updateTime, endTime)
    IN  [o |-> o,
         s |-> newS,
         eventID |-> IF ~(s.s = "dormant" /\ newS = "dormant")
                        /\ StartsEvent(s, newS, endTime)
                     THEN NewEventID(updateTime, endTime)
                     ELSE s.eventID,
         updateTime |-> updateTime,
         endTime |-> endTime]

\* Whether main() goes on to the INSERT for a change, or continues with the
\* next one.
Logged(s, newState) == ~(s.s = "dormant" /\ newState.s = "dormant")

\* The values of the INSERT: the times as sql.NullTime, valid unless zero,
\* and the service update as a sql.NullString, valid unless empty or N/A.
EventRow(newState) ==
    LET NullTime(t) == IF IsZero(t) THEN Null ELSE [null |-> FALSE, t |-> t]
        NullString(str) ==
            IF str # "" /\ str # "N/A" THEN [null |-> FALSE, s |-> str] ELSE Null
    IN  [observation_id |-> newState.o.ID,
         event_id |-> newState.eventID,
         state |-> newState.s,
         update_time |-> NullTime(newState.updateTime),
         end_time |-> NullTime(newState.endTime),
         service_update |-> NullString(newState.o.ServiceUpdate)]

\* INSERT INTO events ... ON CONFLICT DO NOTHING: the table keeps the row
\* it has for an observation_id.
Insert(table, row) ==
    IF \E i \in 1..Len(table) : table[i].observation_id = row.observation_id
    THEN table
    ELSE Append(table, row)

\* s := state{s: "dormant"}
StartState ==
    [o |-> [ID |-> 0, Time |-> ZeroTime, UpdateTime |-> <<>>, ServiceUpdate |-> "", EndTime |-> <<>>],
     s |-> "dormant",
     eventID |-> <<>>,
     updateTime |-> ZeroTime,
     endTime |-> ZeroTime]

\* -- the observed changes of the model --

MaxObs == 3

Feb == Word("Jan", 2, 0, 0)

Mar == Word("Jan", 3, 0, 0)

Number(n) == Word("num", n, 0, 0)

\* The texts a change carries: <<update time, service update, end time>>.
ContentPool ==
    { <<<<Other("N/A")>>, "N/A", <<Other("N/A")>>>>,
      <<<<>>, "", <<>>>>,
      <<<<Feb, Other("sep"), Number(28), Other("sep"), Number(9), Other("a.m.")>>, "Plowing",
        <<Other("N/A")>>>>,
      <<<<Number(3), Other("p.m.")>>, "Plowing", <<>>>>,
      <<<<Feb, Other("sep"), Number(28), Other("sep"), Number(9), Other("a.m.")>>, "Done",
        <<Feb, Other("sep"), Number(28), Other("sep"), Number(11), Other("p.m.7")>>>>,
      <<<<Other("N/A")>>, "Done", <<Mar, Other("sep"), Number(1), Other("at"), Other("noon")>>>>,
      <<<<Feb, Number(28), Number(9), Other("a.m.")>>, "", <<Number(11), Other("p.m.")>>>>,
      <<<<Other("word")>>, "", <<>>>> }

\* The time of the i-th observed change.
ObsTime(i) == Date(2024, 2, 28 + i, (7 + 3 * i) % 24, 0)

RECURSIVE ObservationLists(_)
\* The results of the query: up to n changes in the order of their times,
\* with their ids.
ObservationLists(n) ==
    IF n = 0 THEN {<<>>}
    ELSE LET shorter == ObservationLists(n - 1)
         IN  shorter
             \cup {Append(l, [ID |-> n, Time |-> ObsTime(n), UpdateTime |-> c[1],
                              ServiceUpdate |-> c[2], EndTime |-> c[3]]) :
                       l \in {x \in shorter : Len(x) = n - 1}, c \in ContentPool}

\* Texts and observation times parseUpdateTime is applied to on its own.
ParseTexts ==
    {c[1] : c \in ContentPool} \cup {RepairEndTime(c[3]) : c \in ContentPool}
    \cup { <<Number(9), Other("a.m.")>>,
           <<Word("clock", 11, 30, 0), Other("PM")>>,
           <<Other("Monday"), Feb, Number(29)>>,
           <<Other("Monday"), Mar, Number(4)>>,
           <<Word("mdy", 3, 4, 2024), Word("clock", 11, 30, 0), Other("PM")>>,
           <<Other("at"), Number(3), Other("p.m.")>>,
           <<Number(3), Other("p.m."), Other("word")>>,
           <<Number(13), Other("p.m.")>> }

ParseTimes ==
    { Civil(2024, 1, 1, 10, 0), Civil(2024, 2, 10, 10, 0), Civil(2024, 3, 1, 0, 0),
      Civil(2023, 3, 4, 23, 45), Civil(2024, 12, 31, 16, 0), Civil(2025, 3, 1, 12, 0) }

VARIABLES arch, mLines, mGrid, mIdx, mCall,
          pc, travelwaysFC, bikeFC, iceFC, flags,
          noPlowIndex, titleNormalizer, travelwaysFeatures, travelwaysIndex, travelwayTitles,
          iceIndex, next, bikeFeatures, bikeFrom, debugEntries,
          encFeatures, encSeeds, encFiles, encDecoded,
          observations, cursor, st, events, fatal, changes,
          pTxt, pT, pResult

mvars == <<mLines, mGrid, mIdx, mCall>>

inputs == <<travelwaysFC, bikeFC, iceFC, flags>>

pvars == <<pc, inputs, noPlowIndex, titleNormalizer, travelwaysFeatures, travelwaysIndex,
           travelwayTitles, iceIndex, next, bikeFeatures, bikeFrom, debugEntries>>

evars == <<encFeatures, encSeeds, encFiles, encDecoded>>

dbvars == <<observations, cursor, st, events, fatal, changes>>

cvars == <<dbvars, pTxt, pT, pResult>>

vars == <<arch, mvars, pvars, evars, cvars>>

nilIndex == [err |-> "nil"]

\* The state of main() before it has loaded anything.
MainStart ==
    /\ noPlowIndex = nilIndex
    /\ titleNormalizer = newTitleNormalizer
    /\ travelwaysFeatures = <<>>
    /\ travelwaysIndex = nilIndex
    /\ travelwayTitles = [k \in {} |-> <<>>]
    /\ iceIndex = nilIndex
    /\ next = 1
    /\ bikeFeatures = <<>>
    /\ bikeFrom = <<>>
    /\ debugEntries = <<>>

\* The grid resolution main() gives to every index it builds: <<cols, rows>>.
mainGrid == <<48, 24>>

\* Grid resolutions newSpatialIndex can be called with (cols and rows are
\* plain ints): the resolution of main() and zero or negative ones.
GridSizes == {<<c, r>> : c \in {-1, 0, mainGrid[1]}, r \in {-1, 0, mainGrid[2]}}

MatcherIdle ==
    /\ mLines = <<>>
    /\ mGrid = mainGrid
    /\ mIdx = nilIndex
    /\ mCall = [done |-> FALSE]

EncoderIdle ==
    /\ encFeatures = <<>>
    /\ encSeeds = <<0, 0>>
    /\ encFiles = <<NoFile, NoFile>>
    /\ encDecoded = NotRead

\* parseUpdateTime has not been applied.
NotParsed == [t |-> ZeroTime, ok |-> FALSE, none |-> TRUE]

\* cmd/events has not been started.
EventsIdle ==
    /\ observations = <<>>
    /\ cursor = 1
    /\ st = StartState
    /\ events = <<>>
    /\ fatal = FALSE
    /\ changes = <<>>
    /\ pTxt = <<>>
    /\ pT = ZeroTime
    /\ pResult = NotParsed

\* ------------------------------------------------------------------------
\* Specification of the matcher: an index is built over a reference set and
\* queried once.
\* ------------------------------------------------------------------------

MInit ==
    /\ arch \in Archs
    /\ mLines \in RefSets
    /\ mGrid = mainGrid
    /\ mIdx = nilIndex
    /\ mCall = [done |-> FALSE]
    /\ pc = "idle"
    /\ travelwaysFC = <<>> /\ bikeFC = <<>> /\ iceFC = <<>>
    /\ flags \in Flags
    /\ MainStart
    /\ EncoderIdle
    /\ EventsIdle

MBuild ==
    /\ mIdx.err = "nil"
    /\ pc = "idle"
    /\ mIdx' = newSpatialIndex(mLines, mGrid[1], mGrid[2], arch)
    /\ UNCHANGED <<arch, cvars, mLines, mGrid, mCall, pvars, evars>>

MMatch ==
    /\ mIdx.err = ""
    /\ ~mCall.done
    /\ \E line \in QueryPool, th \in Thresholds :
          mCall' = [done |-> TRUE, line |-> line, th |-> th,
                    result |-> nearestMatch(mIdx, line, th.maxDistanceMeters, th.maxAngleRad,
                                            th.maxOverallAngleRad, th.priorityBiasMeters, arch)]
    /\ UNCHANGED <<arch, cvars, mLines, mGrid, mIdx, pvars, evars>>

MNext == MBuild \/ MMatch

SpecMatch == MInit /\ [][MNext]_vars

\* ------------------------------------------------------------------------
\* Specification of the index construction alone: newSpatialIndex is called
\* once, with any grid resolution of GridSizes.
\* ------------------------------------------------------------------------

GInit ==
    /\ arch \in Archs
    /\ mLines \in RefSets
    /\ mGrid \in GridSizes
    /\ mIdx = nilIndex
    /\ mCall = [done |-> FALSE]
    /\ pc = "idle"
    /\ travelwaysFC = <<>> /\ bikeFC = <<>> /\ iceFC = <<>>
    /\ flags \in Flags
    /\ MainStart
    /\ EncoderIdle
    /\ EventsIdle

SpecIndex == GInit /\ [][MBuild]_vars

\* ------------------------------------------------------------------------
\* Specification of main(): the reference indexes are built, then bikeLines
\* handles the bike features one by one.
\* ------------------------------------------------------------------------

Init ==
    /\ arch \in Archs
    /\ MatcherIdle
    /\ pc = "noPlowIndex"
    /\ travelwaysFC \in TravelwayFCs
    /\ bikeFC \in BikeFCs
    /\ iceFC \in IceFCs
    /\ flags \in Flags
    /\ MainStart
    /\ EncoderIdle
    /\ EventsIdle

\* main: travelwayNoPlowLines and the no-plow index.
NoPlowIndex ==
    /\ pc = "noPlowIndex"
    /\ LET noPlowTravelways == travelwayNoPlowLines(travelwaysFC, Len(travelwaysFC))
       IN  noPlowIndex' = IF Len(noPlowTravelways) > 0
                          THEN newSpatialIndex(noPlowTravelways, 48, 24, arch)
                          ELSE nilIndex
    /\ pc' = "travelwayLines"
    /\ UNCHANGED <<arch, cvars, mvars, evars, inputs, titleNormalizer, travelwaysFeatures, travelwaysIndex,
                   travelwayTitles, iceIndex, next, bikeFeatures, bikeFrom, debugEntries>>

\* main: the title normalizer is seeded and travelwayLines runs.
TravelwayLines ==
    /\ pc = "travelwayLines"
    /\ LET titles == seedTitleNormalizerFromBike(bikeFC, Len(bikeFC),
                         seedTitleNormalizerFromTravelways(travelwaysFC, Len(travelwaysFC),
                                                           newTitleNormalizer))
           r == travelwayLines(travelwaysFC, 1, titles, <<>>, <<>>)
       IN  /\ titleNormalizer' = titles
           /\ travelwaysFeatures' = r.features
           /\ debugEntries' = r.debug
           /\ pc' = IF r.err THEN "fatal" ELSE "travelwaysIndex"
    /\ UNCHANGED <<arch, cvars, mvars, evars, inputs, noPlowIndex, travelwaysIndex, travelwayTitles, iceIndex,
                   next, bikeFeatures, bikeFrom>>

\* main: the travelways index and travelwayTitleMap.
TravelwaysIndex ==
    /\ pc = "travelwaysIndex"
    /\ LET idx == newSpatialIndex(linesForIndex(travelwaysFeatures), 48, 24, arch)
       IN  IF idx.err # ""
           THEN /\ pc' = "fatal"
                /\ UNCHANGED <<travelwaysIndex, travelwayTitles>>
           ELSE /\ pc' = "iceRouteLines"
                /\ travelwaysIndex' = idx
                /\ travelwayTitles' = travelwayTitleMap(travelwaysFeatures, Len(travelwaysFeatures))
    /\ UNCHANGED <<arch, cvars, mvars, evars, inputs, noPlowIndex, titleNormalizer, travelwaysFeatures, iceIndex,
                   next, bikeFeatures, bikeFrom, debugEntries>>

\* main: iceRouteLines and the ice index.
IceRouteLines ==
    /\ pc = "iceRouteLines"
    /\ LET r == iceRouteLines(iceFC, 1, <<>>)
       IN  IF r.err # ""
           THEN /\ pc' = "fatal"
                /\ UNCHANGED iceIndex
           ELSE /\ pc' = "bikeLines"
                /\ iceIndex' = newSpatialIndex(r.lines, 48, 24, arch)
    /\ UNCHANGED <<arch, cvars, mvars, evars, inputs, noPlowIndex, titleNormalizer, travelwaysFeatures,
                   travelwaysIndex, travelwayTitles, next, bikeFeatures, bikeFrom, debugEntries>>

\* bikeLines: one iteration of the loop over the bike features.
BikeLine ==
    /\ pc = "bikeLines"
    /\ next <= Len(bikeFC)
    /\ LET r == bikeLine(bikeFC[next], titleNormalizer, travelwaysIndex, travelwayTitles,
                         noPlowIndex, iceIndex, flags, arch)
       IN  IF r.kind = "err"
           THEN /\ pc' = "fatal"
                /\ bikeFeatures' = <<>>
                /\ bikeFrom' = <<>>
                /\ UNCHANGED <<next, debugEntries>>
           ELSE /\ pc' = pc
                /\ next' = next + 1
                /\ bikeFeatures' = bikeFeatures \o r.feature
                /\ bikeFrom' = IF r.kind = "emit" THEN Append(bikeFrom, next) ELSE bikeFrom
                /\ debugEntries' = debugEntries \o r.debug
    /\ UNCHANGED <<arch, cvars, mvars, evars, inputs, noPlowIndex, titleNormalizer, travelwaysFeatures,
                   travelwaysIndex, travelwayTitles, iceIndex>>

\* bikeLines returns its features.
BikeLinesReturn ==
    /\ pc = "bikeLines"
    /\ next > Len(bikeFC)
    /\ pc' = "write"
    /\ UNCHANGED <<arch, cvars, mvars, evars, inputs, noPlowIndex, titleNormalizer, travelwaysFeatures,
                   travelwaysIndex, travelwayTitles, iceIndex, next, bikeFeatures, bikeFrom,
                   debugEntries>>

Next ==
    \/ NoPlowIndex
    \/ TravelwayLines
    \/ TravelwaysIndex
    \/ IceRouteLines
    \/ BikeLine
    \/ BikeLinesReturn

Spec == Init /\ [][Next]_vars

\* ------------------------------------------------------------------------
\* Specification of the encoder: one feature list is written by two runs of
\* writeFeaturesBin, whose maps draw their own hash seeds, and the file of
\* the first run is read back by readFeaturesBin.
\* ------------------------------------------------------------------------

lineFeature(title, priority, coords, sourceDataset) ==
    [title |-> title, priority |-> priority, coords |-> coords,
     sourceDataset |-> sourceDataset]

\* Output features: coordinates that are odd counts of half a microdegree
\* (they round), a single-point line, a line without coordinates, and two
\* lines at the ends of the range, 2^32 - 1 half microdegrees apart.
EncodePool ==
    {lineFeature(<<"A">>, 1, <<<<0, 0>>, <<3, 1>>>>, datasetTravelways),
     lineFeature(<<"B", "c">>, 2, <<<<4001, 2001>>, <<0, 7>>>>, datasetBike),
     lineFeature(<<>>, 3, <<<<2000, 1000>>>>, datasetIce),
     lineFeature(<<"E">>, 1, <<>>, datasetBike),
     lineFeature(<<"X">>, 1, <<<<MaxInt32, 0>>, <<MaxInt32 - 1, 5>>>>, datasetTravelways),
     lineFeature(<<"W">>, 2, <<<<MinInt32, 10>>>>, datasetTravelways)}

\* Features at the capacity limits of the format: a title of 255 bytes and
\* one of 256 bytes, with and without coordinates, and a line of 65536
\* coordinates.
TitleOf(n) == [i \in 1..n |-> "x"]

CapacityLists ==
    {<<lineFeature(TitleOf(255), 1, <<<<0, 0>>, <<2, 2>>>>, datasetBike)>>,
     <<lineFeature(<<"A">>, 1, <<<<0, 0>>, <<3, 1>>>>, datasetTravelways),
       lineFeature(TitleOf(256), 1, <<<<0, 0>>, <<2, 2>>>>, datasetBike)>>,
     <<lineFeature(TitleOf(256), 2, <<<<0, 0>>, <<2, 2>>>>, datasetBike),
       lineFeature(<<"B", "c">>, 2, <<<<4001, 2001>>, <<0, 7>>>>, datasetBike)>>,
     <<lineFeature(<<"A">>, 1, <<<<0, 0>>, <<3, 1>>>>, datasetTravelways),
       lineFeature(<<"M">>, 3, [i \in 1..65536 |-> <<0, i % 2>>], datasetIce)>>,
     <<lineFeature(TitleOf(256), 1, <<>>, datasetBike),
       lineFeature(<<"A">>, 1, <<<<0, 0>>, <<3, 1>>>>, datasetTravelways)>>}

MaxFeatures == 3

MaxSeed == 1

RECURSIVE FeatureLists(_)
FeatureLists(n) ==
    IF n = 0 THEN {<<>>}
    ELSE FeatureLists(n - 1)
         \cup {Append(fs, f) : fs \in {l \in FeatureLists(n - 1) : Len(l) = n - 1},
                               f \in EncodePool}

EInit ==
    /\ arch \in Archs
    /\ MatcherIdle
    /\ pc = "idle"
    /\ travelwaysFC = <<>> /\ bikeFC = <<>> /\ iceFC = <<>>
    /\ flags \in Flags
    /\ MainStart
    /\ \/ encFeatures \in FeatureLists(MaxFeatures) /\ encSeeds \in (0..MaxSeed) \X (0..MaxSeed)
       \/ encFeatures \in CapacityLists /\ encSeeds = <<0, 0>>
    /\ encFiles = <<NoFile, NoFile>>
    /\ encDecoded = NotRead
    /\ EventsIdle

\* Run i of writeFeaturesBin on the feature list.
EWrite(i) ==
    /\ encFiles[i] = NoFile
    /\ encFiles' = [encFiles EXCEPT ![i] = writeFeaturesBin(encFeatures, arch, encSeeds[i])]
    /\ UNCHANGED <<arch, cvars, mvars, pvars, encFeatures, encSeeds, encDecoded>>

\* readFeaturesBin on the file of the first run.
ERead ==
    /\ encFiles[1].written
    /\ encDecoded = NotRead
    /\ encDecoded' = readFeaturesBin(encFiles[1].data)
    /\ UNCHANGED <<arch, cvars, mvars, pvars, encFeatures, encSeeds, encFiles>>

ENext == (\E i \in 1..2 : EWrite(i)) \/ ERead

SpecEncode == EInit /\ [][ENext]_vars

\* ------------------------------------------------------------------------
\* Specification of cmd/events: main() reads the observed changes in the
\* order of their times and inserts a row of the events table for each
\* change it logs.  The table is empty before the run.  changes records,
\* for each change read without a fatal error, the state before it and the
\* state derived for it.
\* ------------------------------------------------------------------------

VInit ==
    /\ arch \in Archs
    /\ MatcherIdle
    /\ pc = "idle"
    /\ travelwaysFC = <<>> /\ bikeFC = <<>> /\ iceFC = <<>>
    /\ flags \in Flags
    /\ MainStart
    /\ EncoderIdle
    /\ observations \in ObservationLists(MaxObs)
    /\ cursor = 1
    /\ st = StartState
    /\ events = <<>>
    /\ fatal = FALSE
    /\ changes = <<>>
    /\ pTxt = <<>> /\ pT = ZeroTime /\ pResult = NotParsed

\* One round of the loop over rows.Next().
Observe ==
    /\ ~fatal
    /\ cursor <= Len(observations)
    /\ LET row == observations[cursor]
           update == parseUpdateTime(row.UpdateTime, row.Time)
           o == [row EXCEPT !.EndTime = RepairEndTime(row.EndTime)]
           end == parseUpdateTime(o.EndTime, o.Time)
           newState == NewState(st, o, update.t, end.t)
       IN  IF ~update.ok \/ ~end.ok
           THEN /\ fatal' = TRUE
                /\ UNCHANGED <<cursor, st, events, changes>>
           ELSE /\ events' = IF Logged(st, newState) THEN Insert(events, EventRow(newState))
                             ELSE events
                /\ st' = newState
                /\ cursor' = cursor + 1
                /\ changes' = Append(changes, [prev |-> st, new |-> newState])
                /\ UNCHANGED fatal
    /\ UNCHANGED <<arch, mvars, pvars, evars, observations, pTxt, pT, pResult>>

SpecEvents == VInit /\ [][Observe]_vars

\* ------------------------------------------------------------------------
\* Specification of parseUpdateTime alone: it is applied once to a text and
\* an observation time.
\* ------------------------------------------------------------------------

PInit ==
    /\ arch \in Archs
    /\ MatcherIdle
    /\ pc = "idle"
    /\ travelwaysFC = <<>> /\ bikeFC = <<>> /\ iceFC = <<>>
    /\ flags \in Flags
    /\ MainStart
    /\ EncoderIdle
    /\ observations = <<>>
    /\ cursor = 1
    /\ st = StartState
    /\ events = <<>>
    /\ fatal = FALSE
    /\ changes = <<>>
    /\ pTxt \in ParseTexts
    /\ pT \in ParseTimes
    /\ pResult = NotParsed

PParse ==
    /\ pResult = NotParsed
    /\ pResult' = parseUpdateTime(pTxt, pT)
    /\ UNCHANGED <<arch, mvars, pvars, evars, dbvars, pTxt, pT>>

SpecParse == PInit /\ [][PParse]_vars

\* ------------------------------------------------------------------------
\* Claims about nearestMatch
\* ------------------------------------------------------------------------

\* The candidates of the recorded call, as nearestMatch fetches them.
CallCandidates ==
    LET b == lineBounds(mCall.line)
        m == mCall.th.maxDistanceMeters
    IN  candidates(mIdx, b.minLon - metersToDegreesLon(m, mIdx.projector),
                   b.minLat - metersToDegreesLat(m),
                   b.maxLon + metersToDegreesLon(m, mIdx.projector),
                   b.maxLat + metersToDegreesLat(m), arch)

\* The squared line distance of the recorded query to reference line i.
CallDistance(i) ==
    minLineDistanceWithAngle(lineToXY(mIdx.projector, mCall.line), mIdx.lines[i].xy,
                             mCall.th.maxAngleRad)

\* The eligible candidates of the recorded call: those that pass the
\* overall-angle filter and have a finite line distance.
CallEligible ==
    {i \in {CallCandidates[k] : k \in 1..Len(CallCandidates)} :
        /\ ~SkipOverall(mIdx.lines[i], overallLineAngle(lineToXY(mIdx.projector, mCall.line)),
                        mCall.th.maxOverallAngleRad)
        /\ ~IsInf(CallDistance(i))}

\* C1: nearestMatch never returns hasMatch = true with a distance greater
\* than maxDistanceMeters.
C1_DistanceBound ==
    (mCall.done /\ mCall.result.hasMatch) =>
        /\ mCall.result.distance[2] > 0
        /\ mCall.result.distance[1] <=
               mCall.th.maxDistanceMeters * mCall.th.maxDistanceMeters * mCall.result.distance[2]

\* A match is returned that lies exactly at maxDistanceMeters, with a
\* positive bias and a second eligible candidate.
C1_Witness ==
    /\ mCall.done
    /\ mCall.result.hasMatch
    /\ mCall.th.priorityBiasMeters > 0
    /\ mCall.result.distance = <<mCall.th.maxDistanceMeters * mCall.th.maxDistanceMeters, 1>>
    /\ Cardinality(CallEligible) >= 2

\* The case of C2: exactly two eligible candidates c1, c2 at distances
\* d1 < d2 <= d1 + priorityBias, c1 of priority 2 and c2 of priority 1.
C2_Case(c1, c2) ==
    /\ mCall.done
    /\ Len(mCall.line) > 0
    /\ CallEligible = {c1, c2}
    /\ c1 # c2
    /\ mIdx.lines[c1].priority = 2
    /\ mIdx.lines[c2].priority = 1
    /\ RatLT(CallDistance(c1), CallDistance(c2))
    /\ mCall.th.priorityBiasMeters >= 0
    /\ ~ExceedsCutoff(CallDistance(c2), CallDistance(c1), mCall.th.priorityBiasMeters)

\* C2 as stated: in that case nearestMatch returns priority 1 and the object
\* id of candidate 2.
C2_Original ==
    \A c1, c2 \in 1..Len(mLines) :
        C2_Case(c1, c2) =>
            /\ mCall.result.hasMatch
            /\ mCall.result.priority = 1
            /\ mCall.result.objectID = mIdx.lines[c2].objectID

\* C2 (amended): the same, provided candidate 2 lies within maxDistanceMeters
\* (d2 <= maxDistanceMeters).
C2_PriorityBias ==
    \A c1, c2 \in 1..Len(mLines) :
        (C2_Case(c1, c2) /\ ~ExceedsMeters(CallDistance(c2), mCall.th.maxDistanceMeters)) =>
            /\ mCall.result.hasMatch
            /\ mCall.result.priority = 1
            /\ mCall.result.objectID = mIdx.lines[c2].objectID
            /\ mCall.result.distance = CallDistance(c2)

C2_Witness ==
    \E c1, c2 \in 1..Len(mLines) :
        /\ C2_Case(c1, c2)
        /\ ~ExceedsMeters(CallDistance(c2), mCall.th.maxDistanceMeters)
        /\ mCall.result.objectID = mIdx.lines[c2].objectID

\* ------------------------------------------------------------------------
\* Claims about the matching policy of bikeLines
\* ------------------------------------------------------------------------

\* Bike feature k has been handled by the loop of bikeLines, in a run that
\* has not been aborted.
Handled(k) == k \in 1..(next - 1) /\ pc # "fatal"

BikeLS(k) == flattenLineString(bikeFC[k].geometry)

\* WINT_PLOW of bike feature k is N.
Flagged(k) == EqualFold(TrimSpace(MustString(bikeFC[k].props, "WINT_PLOW", <<>>)), <<"N">>)

\* Bike feature k reaches the matching: it is not flagged and has a line.
Considered(k) == ~Flagged(k) /\ BikeLS(k).ok

\* The positions of the bike output that stem from bike feature k.
EmittedAt(k) == {j \in 1..Len(bikeFrom) : bikeFrom[j] = k}

\* The squared line distance of bike feature k to reference line i of idx.
LineDistance(idx, i, k) ==
    minLineDistanceWithAngle(lineToXY(idx.projector, BikeLS(k).ls), idx.lines[i].xy,
                             flags.maxAngleRad)

\* The reference lines of idx within the match thresholds of bike feature k:
\* within maxDistanceMeters under the segment-angle limit, and within the
\* overall-angle limit.
LinesNear(idx, k) ==
    IF idx.err # "" THEN {}
    ELSE {i \in 1..Len(idx.lines) :
            /\ ~SkipOverall(idx.lines[i], overallLineAngle(lineToXY(idx.projector, BikeLS(k).ls)),
                            flags.maxOverallAngleRad)
            /\ ~ExceedsMeters(LineDistance(idx, i, k), flags.maxDistanceMeters)}

\* The query of bikeLines that supplies the priority of bike feature k.
PriorityQuery(k) ==
    Query(IF isProtectedBike(bikeFC[k].props) THEN travelwaysIndex ELSE iceIndex,
          BikeLS(k).ls, flags, flags.priorityBiasMeters, arch)

\* Bike feature k is protected and its no-plow query returns an object id.
Shadowed(k) ==
    /\ isProtectedBike(bikeFC[k].props)
    /\ noPlowIndex.err = ""
    /\ Query(noPlowIndex, BikeLS(k).ls, flags, 0, arch).objectID # 0

DeclaredPriority(k) == priorityFromWintLOS(MustString(bikeFC[k].props, "WINT_LOS", <<>>))

\* C3: a protected bike feature within the match thresholds of both a
\* no-plow travelway and a plowed travelway is not in the bike output.
C3_NoPlowShadowing ==
    \A k \in 1..Len(bikeFC) :
        (/\ Handled(k)
         /\ Considered(k)
         /\ isProtectedBike(bikeFC[k].props)
         /\ LinesNear(noPlowIndex, k) # {}
         /\ LinesNear(travelwaysIndex, k) # {}) => EmittedAt(k) = {}

\* C4: a protected bike feature whose nearest plowed travelway is closer
\* than its nearest no-plow travelway, both within the match thresholds, is
\* in the bike output with that travelway's priority and the source tag
\* travelways.
C4_PrefersCloserPlowed ==
    \A k \in 1..Len(bikeFC) :
        (/\ Handled(k)
         /\ Considered(k)
         /\ isProtectedBike(bikeFC[k].props)
         /\ LinesNear(noPlowIndex, k) # {}
         /\ \E i \in LinesNear(travelwaysIndex, k) :
               \A n \in LinesNear(noPlowIndex, k) :
                   RatLT(LineDistance(travelwaysIndex, i, k), LineDistance(noPlowIndex, n, k)))
        => \E j \in EmittedAt(k) :
              /\ bikeFeatures[j].sourceDataset = datasetTravelways
              /\ \E i \in LinesNear(travelwaysIndex, k) :
                    /\ bikeFeatures[j].priority = travelwaysIndex.lines[i].priority
                    /\ \A m \in LinesNear(travelwaysIndex, k) :
                          RatLE(LineDistance(travelwaysIndex, i, k), LineDistance(travelwaysIndex, m, k))

\* C5: an unprotected bike feature with an ice route within the match
\* thresholds is in the bike output with the priority of such an ice route
\* and the source tag ice.
C5_UnprotectedMatchesIce ==
    \A k \in 1..Len(bikeFC) :
        (/\ Handled(k)
         /\ Considered(k)
         /\ ~isProtectedBike(bikeFC[k].props)
         /\ LinesNear(iceIndex, k) # {})
        => \E j \in EmittedAt(k) :
              /\ bikeFeatures[j].sourceDataset = datasetIce
              /\ \E i \in LinesNear(iceIndex, k) : bikeFeatures[j].priority = iceIndex.lines[i].priority

\* C6: a bike feature that is not flagged not-plowed and not shadowed, whose
\* query finds no match and whose WINT_LOS is a valid code, is in the bike
\* output with that code as its priority and the source tag bike.
C6_FallbackWintLOS ==
    \A k \in 1..Len(bikeFC) :
        (/\ Handled(k)
         /\ Considered(k)
         /\ ~Shadowed(k)
         /\ ~PriorityQuery(k).hasMatch
         /\ DeclaredPriority(k).ok)
        => /\ Cardinality(EmittedAt(k)) = 1
           /\ \A j \in EmittedAt(k) :
                 /\ bikeFeatures[j].priority = DeclaredPriority(k).priority
                 /\ bikeFeatures[j].sourceDataset = datasetBike
                 /\ bikeFeatures[j].coords = BikeLS(k).ls

\* A protected and an unprotected feature have both been emitted by the
\* fallback, one of them with a code written with spaces and the prefix.
C6_Witness ==
    \E k1, k2 \in 1..Len(bikeFC) :
        /\ Handled(k1) /\ Handled(k2)
        /\ isProtectedBike(bikeFC[k1].props) /\ ~isProtectedBike(bikeFC[k2].props)
        /\ \A k \in {k1, k2} :
              /\ Considered(k) /\ ~Shadowed(k) /\ ~PriorityQuery(k).hasMatch
              /\ DeclaredPriority(k).ok
              /\ \E j \in EmittedAt(k) : bikeFeatures[j].sourceDataset = datasetBike
        /\ MustString(bikeFC[k2].props, "WINT_LOS", <<>>) = <<" ", "P", "R", "I", "2">>

\* C7: the bike output holds no feature whose query found no match and
\* whose WINT_LOS is not a valid code, whatever was handled before or after
\* it: every output feature stems from a handled feature with a match or a
\* valid code.
C7_NoMatchNoCodeAbsent ==
    /\ Len(bikeFrom) = Len(bikeFeatures)
    /\ \A j \in 1..Len(bikeFrom) :
          /\ bikeFrom[j] \in 1..(next - 1)
          /\ bikeFeatures[j].coords = BikeLS(bikeFrom[j]).ls
          /\ PriorityQuery(bikeFrom[j]).hasMatch \/ DeclaredPriority(bikeFrom[j]).ok
    /\ \A k \in 1..Len(bikeFC) :
          (Handled(k) /\ Considered(k) /\ ~PriorityQuery(k).hasMatch /\ ~DeclaredPriority(k).ok)
              => EmittedAt(k) = {}

\* A feature without a match and with the invalid code PRI5 has been
\* handled, and the feature handled after it has been emitted.
C7_Witness ==
    \E k \in 1..Len(bikeFC) :
        /\ Handled(k) /\ Handled(k + 1)
        /\ Considered(k) /\ ~PriorityQuery(k).hasMatch /\ ~DeclaredPriority(k).ok
        /\ MustString(bikeFC[k].props, "WINT_LOS", <<>>) = <<"P", "R", "I", "5">>
        /\ EmittedAt(k + 1) # {}

\* The debug entry of handled bike feature k: bikeLines appends one entry
\* per feature, after the entries of travelwayLines.
BikeDebug(k) == debugEntries[Len(debugEntries) - (next - 1) + k]

\* C8: a bike feature whose WINT_PLOW is N is excluded before any matching
\* and is never in the bike output.
C8_NotPlowedExcluded ==
    /\ \A j \in 1..Len(bikeFrom) : ~Flagged(bikeFrom[j])
    /\ \A k \in 1..Len(bikeFC) :
          (Handled(k) /\ Flagged(k)) =>
              /\ EmittedAt(k) = {}
              /\ BikeDebug(k).Reason = "WINT_PLOW=N"
              /\ ~BikeDebug(k).Included
              /\ BikeDebug(k).Coords = <<>>
              /\ BikeDebug(k).MatchDistance = <<0, 1>>

\* A flagged feature (WINT_PLOW "n ") with an ice route within the match
\* thresholds and the valid code PRI1 has been handled and is not in the
\* output, which holds the feature handled before it.
C8_Witness ==
    \E k \in 2..Len(bikeFC) :
        /\ Handled(k)
        /\ Flagged(k)
        /\ MustString(bikeFC[k].props, "WINT_PLOW", <<>>) = <<"n", " ">>
        /\ BikeLS(k).ok
        /\ LinesNear(iceIndex, k) # {}
        /\ PriorityQuery(k).hasMatch
        /\ DeclaredPriority(k).ok
        /\ EmittedAt(k) = {}
        /\ EmittedAt(k - 1) # {}

\* ------------------------------------------------------------------------
\* Claims about encodeFeatures
\* ------------------------------------------------------------------------

\* The decoded coordinate p = base + micro/1000000 lies within 1e-6 degree
\* (two half microdegrees) of the coordinate c >= base.
WithinMicrodegree(c, p) ==
    LET w == WideSub(c, p.base.v)
    IN  \/ p.micro = w[1]
        \/ w[1] < MaxInt32 /\ p.micro = w[1] + 1
        \/ w[2] = 0 /\ p.micro = w[1] - 1

\* The decoded feature g reproduces the feature f.
Reproduces(f, g) ==
    /\ g.title = f.title
    /\ g.priority = f.priority
    /\ g.sourceDataset = f.sourceDataset
    /\ Len(g.coords) = Len(f.coords)
    /\ \A i \in 1..Len(f.coords) :
          /\ WithinMicrodegree(f.coords[i][1], g.coords[i][1])
          /\ WithinMicrodegree(f.coords[i][2], g.coords[i][2])

\* The decoded features are the features, as multisets: they pair off one
\* to one.
SameMultiset(fs, gs) ==
    /\ Len(fs) = Len(gs)
    /\ \E p \in Permutations(1..Len(fs)) : \A i \in 1..Len(fs) : Reproduces(fs[i], gs[p[i]])

\* C9: for any list of features that encodeFeatures accepts, decoding the
\* bytes it produced yields the same multiset of features: titles,
\* priorities, source tags and coordinate counts exactly, every coordinate
\* within 1e-6 degree.
C9_RoundTrip ==
    encDecoded # NotRead =>
        encDecoded.err = "" /\ SameMultiset(encFeatures, encDecoded.features)

\* C10: two runs of encodeFeatures on the same feature list produce the same
\* bytes (or the same error), whatever hash seeds their maps drew.
C10_Deterministic ==
    (encFiles[1] # NoFile /\ encFiles[2] # NoFile) => encFiles[1] = encFiles[2]

\* Both runs wrote a file, their maps drew different seeds, the file has
\* several segments and one of them holds several features.
C10_Witness ==
    /\ encFiles[1].written /\ encFiles[2].written
    /\ encSeeds[1] # encSeeds[2]
    /\ \A i \in 1..Len(encFeatures) : Len(encFeatures[i].coords) > 0
    /\ ReadUint32(encFiles[1].data, 1) >= 2
    /\ ReadUint32(encFiles[1].data, 1) < Len(encFeatures)

OverCapacity ==
    \E k \in 1..Len(encFeatures) :
        Len(encFeatures[k].title) > 255 \/ Len(encFeatures[k].coords) > 65535

Encoded == SelectSeq(encFeatures, LAMBDA f : Len(f.coords) > 0)

\* (c - base) * 1e6 rounds to more than MaxInt32.
BeyondInt32(c, base) ==
    LET w == WideSub(c, base) IN w[1] = MaxInt32 /\ w[2] = 1

\* Some coordinate (hence some segment-box corner) is farther from the base
\* point than an int32 count of microdegrees can express: the largest
\* coordinate of an axis is.
DeltaOverflows ==
    LET all == CoordSet(Encoded)
    IN  \/ all # {} /\ BeyondInt32(SetMax(AxisValues(all, 1)), SetMin(AxisValues(all, 1)))
        \/ all # {} /\ BeyondInt32(SetMax(AxisValues(all, 2)), SetMin(AxisValues(all, 2)))

\* C13: if some coordinate or segment-box corner is farther than the int32
\* fixed-point range from the base point, encodeFeatures fails with an
\* error instead of writing an overflowed delta.
C13_OverflowFails ==
    \A i \in 1..2 :
        (DeltaOverflows /\ encFiles[i] # NoFile) => encFiles[i].err # ""

\* The segments of an encoded file from pos on: the stored bounding box and
\* the features of each.
RECURSIVE FileSegments(_, _, _)
FileSegments(data, pos, n) ==
    IF n = 0 THEN <<>>
    ELSE LET fs == readSegmentFeatures(data, pos + 20, ReadUint32(data, pos + 16),
                                       Float(0), Float(0), <<>>)
         IN  <<[minLon |-> ReadInt32(data, pos), minLat |-> ReadInt32(data, pos + 4),
                maxLon |-> ReadInt32(data, pos + 8), maxLat |-> ReadInt32(data, pos + 12),
                features |-> fs.features]>>
             \o FileSegments(data, fs.pos, n - 1)

\* The stored box of a segment is non-degenerate and contains the stored
\* delta of every coordinate of its features.
BoxContains(seg) ==
    /\ seg.minLon <= seg.maxLon
    /\ seg.minLat <= seg.maxLat
    /\ \A k \in 1..Len(seg.features) : \A j \in 1..Len(seg.features[k].coords) :
          /\ seg.minLon <= seg.features[k].coords[j][1].micro
          /\ seg.features[k].coords[j][1].micro <= seg.maxLon
          /\ seg.minLat <= seg.features[k].coords[j][2].micro
          /\ seg.features[k].coords[j][2].micro <= seg.maxLat

\* C14: in every encoded file each segment's stored bounding box has
\* min <= max on both axes and contains the encoded delta of every
\* coordinate of every feature of the segment.
C14_TightBox ==
    \A i \in 1..2 :
        encFiles[i].written =>
            LET segs == FileSegments(encFiles[i].data, 21, ReadUint32(encFiles[i].data, 1))
            IN  \A s \in 1..Len(segs) : BoxContains(segs[s])

\* ------------------------------------------------------------------------
\* Claims about travelwayLines
\* ------------------------------------------------------------------------

\* travelwayLines has returned its features to main.
TravelwaysReturned == pc \in {"travelwaysIndex", "iceRouteLines", "bikeLines", "write"}

\* The travelway feature qualifies for the output: its owner is not
\* private, it is not flagged not-plowed, its WINT_LOS parses to 1..3 and
\* its geometry has a coordinate.
Qualifies(f) ==
    /\ ~EqualFold(TrimSpace(MustString(f.props, "OWNER", <<>>)), <<"P", "R", "I", "V">>)
    /\ ~EqualFold(TrimSpace(MustString(f.props, "WINT_PLOW", <<>>)), <<"N">>)
    /\ priorityFromWintLOS(MustString(f.props, "WINT_LOS", <<>>)).ok
    /\ flattenLineString(f.geometry).ok

Qualifying == SelectSeq(travelwaysFC, Qualifies)

ExcludedReasons == {"WINT_PLOW=N", "empty geometry", "matched no-plow travelway", "no match"}

IncludedReasons == {"matched travelways", "matched ice", "fallback WINT_LOS"}

\* C16: every bike feature that bikeLines has handled without a fatal error
\* is emitted at most once and has exactly one decision-log entry, with one
\* reason; the entry's Included flag is true exactly if the feature was
\* appended to the output.
C16_OneOutcomeOneEntry ==
    pc \in {"bikeLines", "write"} =>
        /\ Len(debugEntries) = Len(travelwaysFC) + (next - 1)
        /\ Cardinality({j \in 1..Len(debugEntries) : debugEntries[j].Dataset = "bike"}) = next - 1
        /\ Len(bikeFeatures) = Len(bikeFrom)
        /\ \A k \in 1..(next - 1) :
              /\ Cardinality(EmittedAt(k)) <= 1
              /\ BikeDebug(k).Dataset = "bike"
              /\ BikeDebug(k).ObjectID = MustInt(bikeFC[k].props, "OBJECTID", 0)
              /\ BikeDebug(k).Included <=> EmittedAt(k) # {}
              /\ BikeDebug(k).Included => BikeDebug(k).Reason \in IncludedReasons
              /\ ~BikeDebug(k).Included => BikeDebug(k).Reason \in ExcludedReasons

\* bikeLines has returned after emitting one feature and excluding another.
C16_Witness ==
    /\ pc = "write"
    /\ next = 3
    /\ BikeDebug(1).Included # BikeDebug(2).Included

\* ------------------------------------------------------------------------
\* Claims about input errors
\* ------------------------------------------------------------------------

KnownShape(f) == f.geometry.type \in {"LineString", "MultiLineString"}

\* Every reference line (travelway, ice route) has a geometry of a known
\* shape.
ReferenceShapesKnown ==
    /\ \A k \in 1..Len(travelwaysFC) : KnownShape(travelwaysFC[k])
    /\ \A k \in 1..Len(iceFC) : KnownShape(iceFC[k])

\* The ice route has a priority code in 1..3 and a coordinate.
UsableIceRoute(f) ==
    /\ TrimSpace(MustString(f.props, "PRIORITY", <<>>)) \in {<<"1">>, <<"2">>, <<"3">>}
    /\ KnownShape(f)
    /\ flattenLineString(f.geometry).ok

\* C17: a feature with an invalid or missing priority code, an unknown
\* geometry shape or an empty geometry is excluded on its own; the run
\* aborts only for a reference line of unknown shape.  So a run whose
\* reference lines all have a known shape, and which keeps at least one
\* travelway and one ice route, is not aborted.
C17_InputErrorsNotFatal ==
    (/\ ReferenceShapesKnown
     /\ Len(Qualifying) > 0
     /\ \E k \in 1..Len(iceFC) : UsableIceRoute(iceFC[k])) => pc # "fatal"

\* ------------------------------------------------------------------------
\* Claims about configuration errors
\* ------------------------------------------------------------------------

IndexBuilt == mIdx.err # "nil"

\* C18: newSpatialIndex called with cols <= 0 or rows <= 0 returns an
\* error instead of an index.
C18_GridRejected ==
    (IndexBuilt /\ (mGrid[1] <= 0 \/ mGrid[2] <= 0)) => mIdx.err # ""

\* ------------------------------------------------------------------------
\* Claims about the two passes of nearestMatch
\* ------------------------------------------------------------------------

\* The minimum distance pass 1 finds over the eligible candidates.
CallMinDistance == RatSetMin({CallDistance(i) : i \in CallEligible})

\* The bias of the recorded call as pass 2 uses it.
CallBias == Max2(mCall.th.priorityBiasMeters, 0)

\* Pass 1 accepts the recorded query: some eligible candidate lies within
\* maxDistanceMeters.
Pass1Accepts ==
    /\ mCall.done
    /\ Len(mCall.line) > 0
    /\ CallEligible # {}
    /\ ~ExceedsMeters(CallMinDistance, mCall.th.maxDistanceMeters)

\* The eligible candidates within minDistance + max(priorityBias, 0).
InCutoff ==
    {i \in CallEligible : ~ExceedsCutoff(CallDistance(i), CallMinDistance, CallBias)}

\* Those of them with the numerically lowest priority value.
LowestInCutoff ==
    {i \in InCutoff : \A j \in InCutoff : mIdx.lines[i].priority <= mIdx.lines[j].priority}

\* C19 as stated: whenever pass 1 accepts and priorityBiasMeters >= 0,
\* nearestMatch returns hasMatch = true.
C19_Original ==
    (Pass1Accepts /\ mCall.th.priorityBiasMeters >= 0) => mCall.result.hasMatch

\* C19 (amended): whenever pass 1 accepts, priorityBiasMeters >= 0 and one
\* of the candidates of lowest priority value within the cutoff lies within
\* maxDistanceMeters, nearestMatch returns hasMatch = true.
C19_Pass2Accepts ==
    (/\ Pass1Accepts
     /\ mCall.th.priorityBiasMeters >= 0
     /\ \E i \in LowestInCutoff : ~ExceedsMeters(CallDistance(i), mCall.th.maxDistanceMeters))
        => mCall.result.hasMatch

\* A match is returned for a query with a positive bias whose cutoff holds
\* candidates of two priorities, one of them beyond maxDistanceMeters.
C19_Witness ==
    /\ Pass1Accepts
    /\ mCall.th.priorityBiasMeters > 0
    /\ mCall.result.hasMatch
    /\ LowestInCutoff # InCutoff
    /\ \E i \in InCutoff : ExceedsMeters(CallDistance(i), mCall.th.maxDistanceMeters)

\* C20: when nearestMatch returns a match, the winner has the numerically
\* lowest priority value among the eligible candidates within
\* minDistance + max(priorityBias, 0), and the smallest distance among the
\* candidates of that priority; with priorityBias = 0 the returned distance
\* equals the pass-1 minimum distance.
C20_Winner ==
    (mCall.done /\ mCall.result.hasMatch) =>
        /\ \E i \in LowestInCutoff :
              /\ mCall.result.objectID = mIdx.lines[i].objectID
              /\ mCall.result.priority = mIdx.lines[i].priority
              /\ mCall.result.distance = CallDistance(i)
              /\ \A j \in CallEligible :
                    mIdx.lines[j].priority = mIdx.lines[i].priority
                        => RatLE(CallDistance(i), CallDistance(j))
        /\ mCall.th.priorityBiasMeters = 0 =>
              /\ RatLE(mCall.result.distance, CallMinDistance)
              /\ RatLE(CallMinDistance, mCall.result.distance)

\* A match with a positive bias whose winner is farther than the pass-1
\* minimum (a higher-priority candidate was preferred).
C20_Witness ==
    /\ mCall.done
    /\ mCall.result.hasMatch
    /\ mCall.th.priorityBiasMeters > 0
    /\ RatLT(CallMinDistance, mCall.result.distance)

\* ------------------------------------------------------------------------
\* Claims about the line-to-line distance
\* ------------------------------------------------------------------------

\* The segment pair (i, j) of lines a and b has two defined bearings that
\* differ by more than maxAngleRad.
BearingsDiffer(a, b, i, j, maxAngleRad) ==
    LET angleA == segmentAngle(a[i], a[i + 1])
        angleB == segmentAngle(b[j], b[j + 1])
    IN  angleA.ok /\ angleB.ok /\ angleDelta(angleA, angleB, maxAngleRad)

\* The minimum of segmentDistance over every segment pair but those whose
\* defined bearings differ by more than maxAngleRad.
AngleTestedDistance(a, b, maxAngleRad) ==
    RatSetMin({segmentDistance(a[ij[1]], a[ij[1] + 1], b[ij[2]], b[ij[2] + 1]) :
                  ij \in {p \in (1..(Len(a) - 1)) \X (1..(Len(b) - 1)) :
                             ~BearingsDiffer(a, b, p[1], p[2], maxAngleRad)}})

\* C21: with a positive maxSegmentAngle, the line distance of two lines of
\* two or more points is the minimum of segmentDistance over all segment
\* pairs except those whose two defined bearings differ by more than the
\* threshold; a pair with a zero-length segment contributes its distance.
C21_UndefinedBearingContributes ==
    (mCall.done /\ Len(mCall.line) >= 2 /\ mCall.th.maxAngleRad > 0) =>
        \A i \in 1..Len(mIdx.lines) :
            Len(mIdx.lines[i].xy) >= 2 =>
                CallDistance(i) =
                    AngleTestedDistance(lineToXY(mIdx.projector, mCall.line), mIdx.lines[i].xy,
                                        mCall.th.maxAngleRad)

\* ------------------------------------------------------------------------
\* Claims about the grid of the spatial index
\* ------------------------------------------------------------------------

\* Line i of the built index was appended to at least one cell.
Registered(i) ==
    /\ mIdx.cellRange[i].colMin <= mIdx.cellRange[i].colMax
    /\ mIdx.cellRange[i].rowMin <= mIdx.cellRange[i].rowMax

\* The query box of the recorded call: the bounding box of the query line
\* expanded by maxDistanceMeters.
CallBox ==
    LET b == lineBounds(mCall.line)
        m == mCall.th.maxDistanceMeters
    IN  [minLon |-> b.minLon - metersToDegreesLon(m, mIdx.projector),
         minLat |-> b.minLat - metersToDegreesLat(m),
         maxLon |-> b.maxLon + metersToDegreesLon(m, mIdx.projector),
         maxLat |-> b.maxLat + metersToDegreesLat(m)]

\* The bounding box of reference line i intersects the query box.
BoxesIntersect(i) ==
    /\ mIdx.lines[i].minLon <= CallBox.maxLon /\ CallBox.minLon <= mIdx.lines[i].maxLon
    /\ mIdx.lines[i].minLat <= CallBox.maxLat /\ CallBox.minLat <= mIdx.lines[i].maxLat

\* C22: candidates returns each line index at most once and returns every
\* reference line whose bounding box intersects the query box.
C22_NoFalseNegatives ==
    (mCall.done /\ Len(mCall.line) > 0) =>
        /\ \A k, l \in 1..Len(CallCandidates) : CallCandidates[k] = CallCandidates[l] => k = l
        /\ \A i \in 1..Len(mIdx.lines) :
              BoxesIntersect(i) => \E k \in 1..Len(CallCandidates) : CallCandidates[k] = i

\* C23: every reference line passed to newSpatialIndex is registered in at
\* least one grid cell, also when the union bounding box has zero width or
\* zero height.
C23_EveryLineRegistered ==
    (IndexBuilt /\ mIdx.err = "") => \A i \in 1..Len(mIdx.lines) : Registered(i)

\* ------------------------------------------------------------------------
\* Claims about the segments of the encoder
\* ------------------------------------------------------------------------

\* n * (hi - lo) is computed without overflow by the arithmetic used below.
FitsExact(lo, hi, n) == WideSub(hi, lo)[1] < MaxInt32 \div (2 * n)

\* The index, among n equal parts of [lo, hi], of the part that holds rep,
\* clamped to 0..n-1: exact where the products fit, the program's division
\* otherwise.
PartOf(rep, lo, hi, n) ==
    IF hi <= lo THEN 0
    ELSE IF rep = hi THEN n - 1
    ELSE IF FitsExact(lo, hi, n)
         THEN CHOOSE c \in 0..(n - 1) :
                 /\ c * (hi - lo) <= n * (rep - lo)
                 /\ n * (rep - lo) < (c + 1) * (hi - lo)
         ELSE gridIndex(rep, lo, hi, n)

\* The <<row, col>> cell of the 8x4 grid over the bounds b that holds the
\* coordinate c.
CellOfCoord(c, b) ==
    <<PartOf(c[2], b.minLat, b.maxLat, rows), PartOf(c[1], b.minLon, b.maxLon, cols)>>

\* The segments the claim describes: for each cell, in row-major order, that
\* holds the first coordinate of some feature, those features in input order.
ClaimedSegments ==
    LET b == globalBounds(Encoded)
        ks == SelectSeq(RowMajor, LAMBDA key :
                  \E k \in 1..Len(Encoded) : CellOfCoord(Encoded[k].coords[1], b) = key)
    IN  [i \in 1..Len(ks) |->
            SelectSeq(Encoded, LAMBDA f : CellOfCoord(f.coords[1], b) = ks[i])]

\* The stored feature g is the input feature f (coordinates apart).
SameFeature(f, g) ==
    /\ g.title = f.title
    /\ g.priority = f.priority
    /\ g.sourceDataset = f.sourceDataset
    /\ Len(g.coords) = Len(f.coords)

RECURSIVE FeatureCount(_)
FeatureCount(segs) ==
    IF segs = <<>> THEN 0 ELSE Len(Head(segs).features) + FeatureCount(Tail(segs))

\* C24: every written file holds exactly the claimed segments: one segment
\* for each cell that holds the first coordinate of a feature, in ascending
\* row-major order, none empty, each with its features in input order; the
\* feature counts sum to the number of input features with coordinates.
C24_Segments ==
    \A i \in 1..2 :
        encFiles[i].written =>
            LET segs == FileSegments(encFiles[i].data, 21, ReadUint32(encFiles[i].data, 1))
            IN  /\ Len(segs) = Len(ClaimedSegments)
                /\ \A s \in 1..Len(segs) :
                      /\ Len(segs[s].features) = Len(ClaimedSegments[s])
                      /\ Len(segs[s].features) > 0
                      /\ \A k \in 1..Len(segs[s].features) :
                            SameFeature(ClaimedSegments[s][k], segs[s].features[k])
                /\ FeatureCount(segs) = Len(Encoded)

\* A file of two or more segments was written, one segment holds two
\* features, and a feature ends in another cell than it starts in.
C24_Witness ==
    /\ encFiles[1].written
    /\ ReadUint32(encFiles[1].data, 1) >= 2
    /\ \E s \in 1..Len(ClaimedSegments) : Len(ClaimedSegments[s]) >= 2
    /\ \E k \in 1..Len(Encoded) :
          CellOfCoord(Encoded[k].coords[Len(Encoded[k].coords)], globalBounds(Encoded))
              # CellOfCoord(Encoded[k].coords[1], globalBounds(Encoded))

\* ------------------------------------------------------------------------
\* Claims about the shadowing decision and the output priorities
\* ------------------------------------------------------------------------

\* The no-plow query of bikeLines for bike feature k.
NoPlowQuery(k) == Query(noPlowIndex, BikeLS(k).ls, flags, 0, arch)

\* C25: a protected bike feature whose no-plow query returns a match is
\* excluded (reason: matched no-plow travelway), whatever the object id of
\* the matched no-plow line, 0 included.
C25_ShadowFollowsFound ==
    \A k \in 1..Len(bikeFC) :
        (/\ Handled(k)
         /\ Considered(k)
         /\ isProtectedBike(bikeFC[k].props)
         /\ noPlowIndex.err = ""
         /\ NoPlowQuery(k).hasMatch)
        => /\ EmittedAt(k) = {}
           /\ BikeDebug(k).Reason = "matched no-plow travelway"

\* C26: every feature of the travelways output and of the bike output has a
\* priority in 1..3; a bike feature's priority is that of its travelways or
\* ice match, or else its own WINT_LOS code, never the placeholder priority
\* of a no-plow reference line.
C26_OutputPriorities ==
    /\ \A j \in 1..Len(travelwaysFeatures) : travelwaysFeatures[j].priority \in 1..3
    /\ \A j \in 1..Len(bikeFeatures) :
          /\ bikeFeatures[j].priority \in 1..3
          /\ bikeFeatures[j].priority =
                 IF PriorityQuery(bikeFrom[j]).hasMatch
                 THEN PriorityQuery(bikeFrom[j]).priority
                 ELSE DeclaredPriority(bikeFrom[j]).priority

\* The run has a no-plow index and a travelways output, and its bike output
\* holds a protected feature whose no-plow query returned a match (of
\* placeholder priority 1) and which carries another priority.
C26_Witness ==
    /\ noPlowIndex.err = ""
    /\ Len(travelwaysFeatures) > 0
    /\ \E j \in 1..Len(bikeFeatures) :
          /\ isProtectedBike(bikeFC[bikeFrom[j]].props)
          /\ NoPlowQuery(bikeFrom[j]).hasMatch
          /\ NoPlowQuery(bikeFrom[j]).priority = 1
          /\ bikeFeatures[j].priority > 1

\* ------------------------------------------------------------------------
\* Claims about cmd/events
\* ------------------------------------------------------------------------

\* The rows of the events table for the i-th change read.
RowsOf(i) == {j \in 1..Len(events) : events[j].observation_id = changes[i].new.o.ID}

\* The state before the i-th change read.
Previous(i) == IF i = 1 THEN StartState ELSE changes[i - 1].new

\* C27: each change is classified ended if it has an end time, else active
\* if it has an update time, else dormant; the events table has a row for
\* the change, one row with the derived state, if and only if the previous
\* state or the derived state is not dormant.
C27_LoggedUnlessDormant ==
    \A i \in 1..Len(changes) :
        LET new == changes[i].new
            derived == IF new.endTime # ZeroTime THEN "ended"
                       ELSE IF new.updateTime # ZeroTime THEN "active"
                       ELSE "dormant"
        IN  /\ changes[i].prev = Previous(i)
            /\ new.s = derived
            /\ IF Previous(i).s # "dormant" \/ derived # "dormant"
               THEN /\ Cardinality(RowsOf(i)) = 1
                    /\ \A j \in RowsOf(i) : events[j].state = derived
               ELSE RowsOf(i) = {}

\* Three changes were read: one from dormant to dormant, without a row, one
\* to ended that has an update time and an end time, and one from a state
\* that is not dormant to dormant, with its row.
C27_Witness ==
    /\ Len(changes) = 3
    /\ \E i \in 1..3 :
          /\ Previous(i).s = "dormant" /\ changes[i].new.s = "dormant"
          /\ RowsOf(i) = {}
    /\ \E i \in 1..3 :
          /\ changes[i].new.s = "ended"
          /\ changes[i].new.updateTime # ZeroTime
          /\ RowsOf(i) # {}
    /\ \E i \in 1..3 :
          /\ Previous(i).s # "dormant" /\ changes[i].new.s = "dormant"
          /\ \E j \in RowsOf(i) : events[j].state = "dormant"

\* The date of a time, as an event id spells it.
DateOf(t) == <<t.y, t.mo, t.d>>

\* The i-th change read is one of the four transitions that open an event.
OpensEvent(i) ==
    LET old == Previous(i)
        new == changes[i].new
    IN  \/ old.s = "dormant" /\ new.s = "active"
        \/ old.s = "dormant" /\ new.s = "ended"
        \/ old.s = "ended" /\ new.s = "active"
        \/ old.s = "ended" /\ new.s = "ended" /\ new.endTime # old.endTime

\* C28: on the transitions dormant->active, dormant->ended, ended->active
\* and ended->ended with a different end time the event id becomes the date
\* of the update time, or of the end time when there is no update time; on
\* every other transition the previous event id is carried over unchanged.
C28_EventIDs ==
    \A i \in 1..Len(changes) :
        LET new == changes[i].new
        IN  new.eventID =
                IF OpensEvent(i)
                THEN (IF new.updateTime # ZeroTime THEN DateOf(new.updateTime)
                      ELSE DateOf(new.endTime))
                ELSE Previous(i).eventID

\* Three changes were read: the second one went from active to ended and
\* kept the event id, the third one went from ended to ended with another
\* end time and changed the event id.
C28_Witness ==
    /\ Len(changes) = 3
    /\ changes[1].new.s = "active"
    /\ changes[2].new.s = "ended"
    /\ changes[2].new.eventID = changes[1].new.eventID
    /\ changes[3].new.s = "ended"
    /\ changes[3].new.endTime # changes[2].new.endTime
    /\ changes[3].new.eventID # changes[2].new.eventID

\* C29: every row of the events table carries an event id that is not
\* empty.
C29_RowsHaveEventID ==
    \A j \in 1..Len(events) : events[j].event_id # <<>>

\* The table has the rows of three changes, the first one read in the
\* dormant state with an empty event id, one of the later ones back to
\* dormant and one without an update time.
C29_Witness ==
    /\ Len(events) = 3
    /\ changes[1].prev.eventID = <<>>
    /\ \E j \in 1..3 : events[j].state = "dormant"
    /\ \E j \in 1..3 : events[j].update_time = Null /\ events[j].end_time # Null

\* parseUpdateTime was applied to a text without a year and returned ok.
ParsedWithoutYear ==
    /\ pResult # NotParsed
    /\ pResult.ok
    /\ \A i \in 1..Len(pTxt) : pTxt[i].k # "mdy"

\* The words of a text a layout reads: the longest beginning of the text,
\* as the layouts see it, that some layout reads.
ReadWords(txt) ==
    LET words == NormaliseText(txt)
        read == {n \in 1..Len(words) :
                    \E i \in 1..Len(formats) :
                        ~ParseInLocation(formats[i], SubSeq(words, 1, n)).err}
    IN  IF read = {} THEN <<>>
        ELSE SubSeq(words, 1, CHOOSE n \in read : \A k \in read : k <= n)

\* The text gives a time of day only (layouts "3 PM" and "3:04 PM").
TimeOnly(txt) ==
    \E i \in 1..Len(formats) :
        ~formats[i].hasDate /\ ~ParseInLocation(formats[i], ReadWords(txt)).err

\* The time of day a time-only text gives, as <<hour, minute>>.
ClockOf(txt) ==
    LET i == CHOOSE i \in 1..Len(formats) :
                 ~formats[i].hasDate /\ ~ParseInLocation(formats[i], ReadWords(txt)).err
        parsed == ParseInLocation(formats[i], ReadWords(txt)).t
    IN  <<parsed.h, parsed.mi>>

\* The most recent occurrence of a time of day at or before t: on the day
\* of t, or on the day before when the time of day is later than that of t.
MostRecent(clock, t) ==
    IF clock[1] < t.h \/ (clock[1] = t.h /\ clock[2] <= t.mi)
    THEN Civil(t.y, t.mo, t.d, clock[1], clock[2])
    ELSE Date(t.y, t.mo, t.d - 1, clock[1], clock[2])

\* C30: for a text without a year and an observation time t, the time
\* parseUpdateTime returns with ok is never after t, and for a text that
\* gives a time of day only it is the most recent occurrence of that time of
\* day at or before t.
C30_NeverAfterObservation ==
    ParsedWithoutYear
    => /\ ~After(pResult.t, pT)
       /\ TimeOnly(pTxt) => pResult.t = MostRecent(ClockOf(pTxt), pT)

====
